---- MODULE Spec2Model ----
(***************************************************************************)
(* Model of the llm-router-bun routing pipeline:                           *)
(*   - CircuitBreaker            (src/patterns/circuit-breaker.ts)         *)
(*   - withRetry                 (src/patterns/retry.ts)                   *)
(*   - filterCandidates          (src/clients/model-filter.ts)             *)
(*   - routing strategies        (src/strategies/*.strategy.ts)            *)
(*   - LlmRouterService          (src/services/llm-router.service.ts)      *)
(*                                                                         *)
(* Three specifications share the module:                                  *)
(*   SpecCB    one CircuitBreaker driven by arbitrary call sequences       *)
(*   SpecRetry one withRetry invocation over an arbitrary operation        *)
(*   Spec      LlmRouterService.complete calls, interleaved at their       *)
(*             suspension points, over a three-model catalogue             *)
(***************************************************************************)
EXTENDS Integers, Sequences, FiniteSets, TLC

VARIABLES
    now,        \* Date.now(), in ms
    \* ---- one CircuitBreaker under test (SpecCB) ----
    cb,         \* the breaker's private fields
    cbOp,       \* the last method called on it
    cbRet,      \* the value the last canExecute() returned
    consec,     \* failures recorded since creation / the last recordSuccess
    hoSucc,     \* successes recorded since the breaker entered HALF_OPEN
    reopenAt,   \* time of the last HALF_OPEN -> OPEN transition, or -1
    \* ---- one withRetry invocation under test (SpecRetry) ----
    rt,         \* the invocation: config, loop variable, lastError, position
    rtLog,      \* the outcomes of the invocations of fn so far, in order
    \* ---- one LlmRouterService (Spec, SpecSeq) ----
    breakers,   \* LlmRouterService.breakers: Map<model id, CircuitBreaker>
    reqs,       \* the complete() calls: one record per caller
    started,    \* number of complete() calls made so far
    \* ---- one call of a pure function (SpecFilter, SpecSelect) ----
    fnArgs,     \* the arguments of the call
    fnRet,      \* <<>> before the call, <<value returned>> after it
    \* ---- one SemanticClassifierService and its stores (SpecCls) ----
    cache,      \* Redis: key -> [value, ttl] for the keys that exist
    cls,        \* the classify() calls: one record per caller
    clsStarted, \* number of classify() calls made so far
    points,     \* Qdrant collection: point id -> payload
    adds,       \* the addExample() calls, one record per caller, and the
                \* point ids they have generated so far, in order
    \* ---- one provider client call (SpecClient) ----
    http        \* ILlmClient.complete: position, start time, abort timer

cbVars == <<cb, cbOp, cbRet, consec, hoSucc, reopenAt>>
retryVars == <<rt, rtLog>>
routerVars == <<breakers, reqs, started>>
fnVars == <<fnArgs, fnRet>>
clsVars == <<cache, cls, clsStarted, points, adds>>
httpVars == <<http>>
vars == <<now, cbVars, retryVars, routerVars, fnVars, clsVars, httpVars>>

(***************************************************************************)
(* Constants of src/constants.ts                                           *)
(***************************************************************************)
CIRCUIT_FAILURE_THRESHOLD == 3
CIRCUIT_SUCCESS_THRESHOLD == 2
CIRCUIT_HALF_OPEN_TIMEOUT_MS == 60000
RETRY_ATTEMPTS == 2
RETRY_BASE_DELAY_MS == 300

(***************************************************************************)
(* Bounds of the model                                                     *)
(***************************************************************************)
CBTickMs == 30000    \* SpecCB: the clock advances in steps of CBTickMs
CBMaxNow == 150000   \* SpecCB: the clock stops advancing at CBMaxNow
TickMs == 60000      \* router: the clock advances in steps of TickMs
MaxNow == 60000      \* router: the clock stops advancing at MaxNow
MaxAttempts == 4     \* largest config.attempts given to withRetry in SpecRetry
NumCallers == 2      \* complete() calls that can be in progress at once
MaxCompletes == 2    \* complete() calls made in one behaviour
ApiCompletes == 2    \* SpecApi: POST /complete requests made in one behaviour
MaxListLen == 3      \* SpecFilter, SpecSelect: longest model list passed in
MaxHits == 3         \* SpecPass: most hits one qdrant.search resolves with
NumClassifiers == 2  \* classify() calls that can be in progress at once
MaxClassify == 2     \* SpecCls: classify() calls made in one behaviour
HttpTickMs == 10000  \* SpecClient: the clock advances by at most HttpTickMs
HttpMaxNow == 80000  \* SpecClient: the clock stops advancing at HttpMaxNow
MaxHttpCalls == 2    \* SpecClient: provider calls made in one behaviour
MaxAdds == 2         \* SpecFeedback: addExample() calls made in one behaviour
FbMaxNow == 2        \* SpecFeedback: the clock, in steps of 1 ms, stops here
SeqCompletes == 4    \* SpecSeq: complete() calls made one after another

Min(a, b) == IF a < b THEN a ELSE b

(***************************************************************************)
(* CircuitBreaker                                                          *)
(***************************************************************************)
CircuitState == {"CLOSED", "OPEN", "HALF_OPEN"}

\* the config LlmRouterService.getBreaker passes to every breaker
BreakerConfig ==
    [failureThreshold |-> CIRCUIT_FAILURE_THRESHOLD,
     successThreshold |-> CIRCUIT_SUCCESS_THRESHOLD,
     halfOpenTimeoutMs |-> CIRCUIT_HALF_OPEN_TIMEOUT_MS]

\* field initialisers of the class
NewBreaker ==
    [state |-> "CLOSED", failureCount |-> 0, successCount |-> 0,
     lastFailureTime |-> 0]

\* private transition(next)
transition(b, next) ==
    IF b.state # next THEN [b EXCEPT !.state = next] ELSE b

canExecute_strictTimeout(b, t) ==
    IF b.state = "CLOSED" THEN [ret |-> TRUE, cb |-> b]
    ELSE IF b.state = "OPEN" THEN
        LET elapsed == t - b.lastFailureTime IN
        IF elapsed > BreakerConfig.halfOpenTimeoutMs
        THEN [ret |-> TRUE, cb |-> transition(b, "HALF_OPEN")]
        ELSE [ret |-> FALSE, cb |-> b]
    ELSE [ret |-> TRUE, cb |-> b]

\* canExecute(): the returned value and the breaker afterwards
canExecute(b, t) ==
    IF b.state = "CLOSED" THEN [ret |-> TRUE, cb |-> b]
    ELSE IF b.state = "OPEN" THEN
        LET elapsed == t - b.lastFailureTime IN
        IF elapsed >= BreakerConfig.halfOpenTimeoutMs
        THEN [ret |-> TRUE, cb |-> transition(b, "HALF_OPEN")]
        ELSE [ret |-> FALSE, cb |-> b]
    ELSE [ret |-> TRUE, cb |-> b]

recordSuccess_closesAtOnce(b) ==
    LET b1 == [b EXCEPT !.failureCount = 0] IN
    IF b1.state = "HALF_OPEN" THEN
        transition([b1 EXCEPT !.successCount = 0], "CLOSED")
    ELSE b1

recordSuccess_keepsFailures(b) ==
    IF b.state = "HALF_OPEN" THEN
        LET b2 == [b EXCEPT !.successCount = @ + 1] IN
        IF b2.successCount >= BreakerConfig.successThreshold
        THEN transition([b2 EXCEPT !.successCount = 0, !.failureCount = 0],
                        "CLOSED")
        ELSE b2
    ELSE b

\* recordSuccess()
recordSuccess(b) ==
    LET b1 == [b EXCEPT !.failureCount = 0] IN
    IF b1.state = "HALF_OPEN" THEN
        LET b2 == [b1 EXCEPT !.successCount = @ + 1] IN
        IF b2.successCount >= BreakerConfig.successThreshold
        THEN transition([b2 EXCEPT !.successCount = 0], "CLOSED")
        ELSE b2
    ELSE b1

recordFailure_keepsCount(b, t) ==
    LET b1 == [b EXCEPT !.lastFailureTime = t,
                        !.successCount = 0,
                        !.failureCount = @ + 1] IN
    IF b1.state = "HALF_OPEN"
       \/ b1.failureCount >= BreakerConfig.failureThreshold
    THEN transition(b1, "OPEN")
    ELSE b1

recordFailure_countsInHalfOpen(b, t) ==
    LET b1 == [b EXCEPT !.lastFailureTime = t,
                        !.successCount = 0,
                        !.failureCount = @ + 1] IN
    IF b1.failureCount >= BreakerConfig.failureThreshold
    THEN transition([b1 EXCEPT !.failureCount = 0], "OPEN")
    ELSE b1

\* recordFailure()
recordFailure(b, t) ==
    LET b1 == [b EXCEPT !.lastFailureTime = t,
                        !.successCount = 0,
                        !.failureCount = @ + 1] IN
    IF b1.state = "HALF_OPEN"
       \/ b1.failureCount >= BreakerConfig.failureThreshold
    THEN transition([b1 EXCEPT !.failureCount = 0], "OPEN")
    ELSE b1

\* getState()
getState(b) == b.state

(***************************************************************************)
(* withRetry                                                               *)
(*   pc = "call"      fn() has been invoked and is awaited                 *)
(*   pc = "sleep"     Bun.sleep(delay) is awaited                          *)
(*   pc = "returned"  withRetry returned `value`                           *)
(*   pc = "thrown"    withRetry threw `thrown`                             *)
(* calls counts the invocations of fn, sleeps lists the delays slept.      *)
(***************************************************************************)
Undefined == "undefined"

\* the error of a fetch aborted through its AbortSignal
Cancelled == "AbortError"

RECURSIVE Pow2(_)
Pow2(k) == IF k = 0 THEN 1 ELSE 2 * Pow2(k - 1)

\* the config LlmRouterService.tryModels passes to withRetry
RouterRetryConfig ==
    [attempts |-> RETRY_ATTEMPTS, baseDelayMs |-> RETRY_BASE_DELAY_MS]

\* the head of the for loop: invoke fn if attempt < attempts, else throw
retryLoop(r) ==
    IF r.attempt < r.cfg.attempts
    THEN [r EXCEPT !.pc = "call", !.calls = @ + 1]
    ELSE [r EXCEPT !.pc = "thrown", !.thrown = r.lastError]

\* entry of withRetry: let lastError; attempt = 0
retryStart(config) ==
    retryLoop([cfg |-> config, attempt |-> 0, lastError |-> Undefined,
               pc |-> "entry", value |-> Undefined, thrown |-> Undefined,
               calls |-> 0, sleeps |-> <<>>])

\* `return await fn()` when fn resolves with v
retryOnResolve(r, v) ==
    [r EXCEPT !.pc = "returned", !.value = v]

retryOnReject_keepsFirstError(r, err) ==
    LET r1 == [r EXCEPT !.lastError =
                   IF r.lastError = Undefined THEN err ELSE r.lastError] IN
    IF r1.attempt < r1.cfg.attempts - 1
    THEN [r1 EXCEPT !.pc = "sleep",
                    !.sleeps = Append(@, r1.cfg.baseDelayMs * Pow2(r1.attempt))]
    ELSE retryLoop([r1 EXCEPT !.attempt = @ + 1])

retryOnReject_sleepsAfterLast(r, err) ==
    LET r1 == [r EXCEPT !.lastError = err] IN
    IF r1.attempt < r1.cfg.attempts
    THEN [r1 EXCEPT !.pc = "sleep",
                    !.sleeps = Append(@, r1.cfg.baseDelayMs * Pow2(r1.attempt))]
    ELSE retryLoop([r1 EXCEPT !.attempt = @ + 1])

\* the catch block when fn rejects with err
retryOnReject(r, err) ==
    LET r1 == [r EXCEPT !.lastError = err] IN
    IF r1.attempt < r1.cfg.attempts - 1
    THEN [r1 EXCEPT !.pc = "sleep",
                    !.sleeps = Append(@, r1.cfg.baseDelayMs * Pow2(r1.attempt))]
    ELSE retryLoop([r1 EXCEPT !.attempt = @ + 1])

retryOnWake_sameAttempt(r) == retryLoop(r)

\* Bun.sleep resolves: attempt++ and back to the head of the loop
retryOnWake(r) ==
    retryLoop([r EXCEPT !.attempt = @ + 1])

(***************************************************************************)
(* Types (src/types) and the provider's model catalogue.                   *)
(* Money is in thousandths of a USD (costPer1MInput 0.1 is 100), so that   *)
(* the strategy scores are exact integers.                                 *)
(***************************************************************************)
TaskCategory == {"simple", "code", "reasoning", "data_analysis", "creative"}
PrivacySensitivity == {"public", "internal", "sensitive"}
RoutingStrategy == {"cost_first", "quality_first", "balanced"}

\* makeModel: the defaults every fixture profile starts from
makeModel ==
    [id |-> "test/model-a", costPer1MInput |-> 1000, costPer1MOutput |-> 2000,
     contextWindow |-> 100000, supportsSensitive |-> TRUE,
     latencyTier |-> "fast", qualityScore |-> [c \in TaskCategory |-> 7]]

\* REGISTRY_MODELS: the catalogue the provider client owns
REGISTRY_MODELS ==
    << [makeModel EXCEPT !.id = "safe/cheap-fast",
                         !.costPer1MInput = 100,
                         !.contextWindow = 200000,
                         !.supportsSensitive = TRUE,
                         !.latencyTier = "fast",
                         !.qualityScore = [c \in TaskCategory |-> 6]],
       [makeModel EXCEPT !.id = "safe/expensive-slow",
                         !.costPer1MInput = 5000,
                         !.contextWindow = 500000,
                         !.supportsSensitive = TRUE,
                         !.latencyTier = "slow",
                         !.qualityScore = [c \in TaskCategory |-> 10]],
       [makeModel EXCEPT !.id = "unsafe/cheap",
                         !.costPer1MInput = 30,
                         !.contextWindow = 128000,
                         !.supportsSensitive = FALSE,
                         !.latencyTier = "medium",
                         !.qualityScore = [c \in TaskCategory |-> 7]] >>

\* ILlmClient.getAll()
getAll == REGISTRY_MODELS

ModelIds == {getAll[i].id : i \in DOMAIN getAll}

\* the profile with a given id (ids are unique in a catalogue)
Profile(id) == getAll[CHOOSE i \in DOMAIN getAll : getAll[i].id = id]

Ids(models) == [i \in DOMAIN models |-> models[i].id]

(***************************************************************************)
(* filterCandidates (src/clients/model-filter.ts)                          *)
(***************************************************************************)
\* an optional number is <<>> (undefined) or <<n>>
NoNumber == <<>>
Num(n) == <<n>>

\* JavaScript !x for an optional number
Falsy(x) == x = NoNumber \/ x[1] = 0

filterCandidates(models, sensitivity, minContextWindow, maxCostPer1M) ==
    LET requiresSensitive ==
            sensitivity = "sensitive" \/ sensitivity = "internal"
        keep(m) ==
            /\ (~requiresSensitive \/ m.supportsSensitive)
            /\ m.contextWindow >= minContextWindow
            /\ (Falsy(maxCostPer1M) \/ m.costPer1MInput <= maxCostPer1M[1])
    IN SelectSeq(models, keep)

\* ILlmClient.getCandidates(sensitivity, minContextWindow, maxCostPer1M)
getCandidates(sensitivity, minContextWindow, maxCostPer1M) ==
    filterCandidates(getAll, sensitivity, minContextWindow, maxCostPer1M)

(***************************************************************************)
(* Routing strategies (src/strategies)                                     *)
(***************************************************************************)
LATENCY_SCORE == [fast |-> 3, medium |-> 2, slow |-> 1]

\* createRoutingStrategy: the strategy class chosen for an option value
createRoutingStrategy(strategy) ==
    IF strategy = "cost_first" THEN "CostFirstStrategy"
    ELSE IF strategy = "quality_first" THEN "QualityFirstStrategy"
    ELSE "BalancedStrategy"

\* the weights (quality, cost, latency) of each class' score(), in tenths
StrategyWeights(class) ==
    IF class = "CostFirstStrategy" THEN [q |-> 2, c |-> 7, l |-> 1]
    ELSE IF class = "QualityFirstStrategy" THEN [q |-> 8, c |-> 1, l |-> 1]
    ELSE [q |-> 5, c |-> 3, l |-> 2]

\* score(model, category) of a strategy class, times 10000
score(class, model, category) ==
    LET quality == model.qualityScore[category]
        \* costScore = 10 - Math.min(costPer1MInput * 5, 10), times 1000
        costScore == 10000 - Min(model.costPer1MInput * 5, 10000)
        w == StrategyWeights(class)
    IN quality * 1000 * w.q + costScore * w.c
       + LATENCY_SCORE[model.latencyTier] * 1000 * w.l

Range(seq) == {seq[i] : i \in DOMAIN seq}

RECURSIVE InsertDescending_tiesGoFirst(_, _, _)
InsertDescending_tiesGoFirst(sorted, x, key) ==
    IF sorted = <<>> THEN <<x>>
    ELSE IF key[x] >= key[Head(sorted)] THEN <<x>> \o sorted
    ELSE <<Head(sorted)>> \o InsertDescending_tiesGoFirst(Tail(sorted), x, key)

\* Array.prototype.sort with the comparator (a, b) => key[b] - key[a]; the
\* sort is stable: x goes behind every element whose key is not smaller
RECURSIVE InsertDescending(_, _, _)
InsertDescending(sorted, x, key) ==
    IF sorted = <<>> THEN <<x>>
    ELSE IF key[x] > key[Head(sorted)] THEN <<x>> \o sorted
    ELSE <<Head(sorted)>> \o InsertDescending(Tail(sorted), x, key)

RECURSIVE SortDescending(_, _)
SortDescending(seq, key) ==
    IF seq = <<>> THEN <<>>
    ELSE InsertDescending(SortDescending(SubSeq(seq, 1, Len(seq) - 1), key),
                          seq[Len(seq)], key)

\* select(candidates, context):
\*   [...candidates].sort((a, b) => score(b, category) - score(a, category))
select(class, candidates, context) ==
    SortDescending(candidates,
        [m \in Range(candidates) |-> score(class, m, context.category)])

(***************************************************************************)
(* LlmRouterService (src/services/llm-router.service.ts)                   *)
(* Confidence is in hundredths (0.5 is 50).                                *)
(***************************************************************************)
CONFIDENCE_MIN == 50

\* a ClassificationResult, as far as routing, the response and the audit
\* entry use it
NoClassification ==
    [category |-> Undefined, confidence |-> 0, source |-> Undefined]

buildClassification_dropsSignals(forceCategory, result) ==
    IF forceCategory # Undefined
    THEN [category |-> forceCategory, confidence |-> 100,
          source |-> "semantic"]
    ELSE IF result.confidence < CONFIDENCE_MIN
    THEN [result EXCEPT !.category = "reasoning", !.source = "semantic",
                        !.signals = <<>>]
    ELSE result

buildClassification_escalatesAtMin(forceCategory, result) ==
    IF forceCategory # Undefined
    THEN [category |-> forceCategory, confidence |-> 100,
          source |-> "semantic"]
    ELSE IF result.confidence <= CONFIDENCE_MIN
    THEN [result EXCEPT !.category = "reasoning", !.source = "semantic"]
    ELSE result

buildClassification_overridesResult(forceCategory, result) ==
    IF forceCategory # Undefined
    THEN [result EXCEPT !.category = forceCategory]
    ELSE IF result.confidence < CONFIDENCE_MIN
    THEN [result EXCEPT !.category = "reasoning", !.source = "semantic"]
    ELSE result

\* buildClassification(prompt, forceCategory), `result` being what
\* classifier.classify(prompt) resolves with
buildClassification(forceCategory, result) ==
    IF forceCategory # Undefined
    THEN [category |-> forceCategory, confidence |-> 100,
          source |-> "semantic"]
    ELSE IF result.confidence < CONFIDENCE_MIN
    THEN [result EXCEPT !.category = "reasoning", !.source = "semantic"]
    ELSE result

\* the destructuring defaults of complete()
OrDefault(x, d) == IF x = Undefined THEN d ELSE x
NumOrDefault(x, d) == IF x = NoNumber THEN d ELSE x[1]

\* The part of complete() that depends on its arguments only: the option
\* defaults, the classification, and either the forced model id or the
\* ranked catalogue candidates (before the breaker filter).
Plan(opts, result) ==
    LET strategy == OrDefault(opts.strategy, "balanced")
        sensitivity == OrDefault(opts.sensitivity, "internal")
        requireContextWindow == NumOrDefault(opts.requireContextWindow, 0)
        maxCostPer1MTokens == opts.maxCostPer1MTokens
        classification == buildClassification(opts.forceCategory, result)
        context == [category |-> classification.category,
                    sensitivity |-> sensitivity,
                    requireContextWindow |-> requireContextWindow,
                    maxCostPer1M |-> maxCostPer1MTokens]
    IN [classification |-> classification,
        sensitivity |-> sensitivity,
        forceModel |-> opts.forceModel,
        ranked |-> IF opts.forceModel # Undefined THEN <<>>
                   ELSE Ids(select(createRoutingStrategy(strategy),
                                   getCandidates(sensitivity,
                                                 requireContextWindow,
                                                 maxCostPer1MTokens),
                                   context))]

\* getBreaker(modelId): the map after the call; the breaker is map[modelId]
getBreaker_alwaysNew(map, modelId) ==
    [m \in DOMAIN map \cup {modelId} |->
        IF m = modelId THEN NewBreaker ELSE map[m]]

getBreaker(map, modelId) ==
    IF modelId \in DOMAIN map THEN map
    ELSE [m \in DOMAIN map \cup {modelId} |->
              IF m = modelId THEN NewBreaker ELSE map[m]]

RECURSIVE filterByBreaker_dropsReopened(_, _, _)
filterByBreaker_dropsReopened(ranked, map, t) ==
    IF ranked = <<>> THEN [kept |-> <<>>, map |-> map]
    ELSE LET id == Head(ranked)
             m1 == getBreaker(map, id)
             r == canExecute(m1[id], t)
             rest == filterByBreaker_dropsReopened(
                         Tail(ranked), [m1 EXCEPT ![id] = r.cb], t)
         IN [kept |-> IF r.ret /\ m1[id].state # "OPEN"
                      THEN <<id>> \o rest.kept ELSE rest.kept,
             map |-> rest.map]

RECURSIVE filterByBreaker_keepsAll(_, _, _)
filterByBreaker_keepsAll(ranked, map, t) ==
    IF ranked = <<>> THEN [kept |-> <<>>, map |-> map]
    ELSE LET rest == filterByBreaker_keepsAll(Tail(ranked),
                                              getBreaker(map, Head(ranked)), t)
         IN [kept |-> <<Head(ranked)>> \o rest.kept, map |-> rest.map]

\* .filter((m) => this.getBreaker(m.id).canExecute()) over the ranked list:
\* the ids kept and the breaker map afterwards
RECURSIVE filterByBreaker(_, _, _)
filterByBreaker(ranked, map, t) ==
    IF ranked = <<>> THEN [kept |-> <<>>, map |-> map]
    ELSE LET id == Head(ranked)
             m1 == getBreaker(map, id)
             r == canExecute(m1[id], t)
             rest == filterByBreaker(Tail(ranked),
                                     [m1 EXCEPT ![id] = r.cb], t)
         IN [kept |-> IF r.ret THEN <<id>> \o rest.kept ELSE rest.kept,
             map |-> rest.map]

\* resolveModel(modelId): found or not
resolveModel(modelId) == modelId \in ModelIds

NoRetry ==
    [cfg |-> RouterRetryConfig, attempt |-> 0, lastError |-> Undefined,
     pc |-> "none", value |-> Undefined, thrown |-> Undefined,
     calls |-> 0, sleeps |-> <<>>]

NoResponse ==
    [model |-> Undefined, category |-> Undefined, fallbackUsed |-> FALSE]

\* One complete() call.
\*   pc           "idle", "classify" (awaiting buildClassification),
\*                "provider" (awaiting llmClient.complete), "backoff"
\*                (awaiting Bun.sleep), "done" (returned), "error" (threw)
\*   candidates   the list tryModels iterates, idx the loop position
\*   retry        the withRetry invocation of the current candidate
\*   calls        llmClient.complete calls made per model id
\*   successes    breaker.recordSuccess() calls made per model id
\*   failures     breaker.recordFailure() calls made per model id
\*   inserts      the auditLog.insert calls dispatched: the entry and the
\*                state of the promise insert returned
\* SpecApi, where the call is made by the POST /complete handler, also keeps
\*   body             <<the request body>>
\*   classifierCalls  classifier.classify invocations made
\*   classified       <<what classifier.classify resolved with>>
IdleCall ==
    [pc |-> "idle", classification |-> NoClassification,
     sensitivity |-> Undefined, forceModel |-> Undefined,
     ranked |-> <<>>, candidates |-> <<>>, idx |-> 0, retry |-> NoRetry,
     calls |-> [m \in ModelIds |-> 0],
     successes |-> [m \in ModelIds |-> 0],
     failures |-> [m \in ModelIds |-> 0],
     inserts |-> <<>>, response |-> NoResponse, error |-> Undefined,
     body |-> <<>>, classifierCalls |-> 0, classified |-> <<>>]

Throw(q, message) == [q EXCEPT !.pc = "error", !.error = message]

\* tryModels, from the head of the for loop at candidates[i] up to the
\* first await: getBreaker, then withRetry invokes llmClient.complete;
\* past the last candidate, throw
tryModels(q, map, i) ==
    IF i > Len(q.candidates)
    THEN [call |-> Throw(q, "All models failed"), map |-> map]
    ELSE LET id == q.candidates[i]
             rt0 == retryStart(RouterRetryConfig)
         IN [call |-> [q EXCEPT !.pc = "provider", !.idx = i,
                                !.retry = rt0,
                                !.calls[id] = @ + rt0.calls],
             map |-> getBreaker(map, id)]

complete_forcedThenOthers(q, map, plan, t) ==
    LET q0 == [q EXCEPT !.classification = plan.classification,
                        !.sensitivity = plan.sensitivity,
                        !.forceModel = plan.forceModel,
                        !.ranked = plan.ranked]
        others == SelectSeq(Ids(getAll), LAMBDA m : m # plan.forceModel)
    IN IF plan.forceModel # Undefined
       THEN IF ~resolveModel(plan.forceModel)
            THEN [call |-> Throw(q0, "Unknown model"), map |-> map]
            ELSE tryModels([q0 EXCEPT !.candidates =
                                          <<plan.forceModel>> \o others],
                           map, 1)
       ELSE LET f == filterByBreaker(plan.ranked, map, t) IN
            IF f.kept = <<>>
            THEN [call |-> Throw(q0, "No models available"), map |-> f.map]
            ELSE tryModels([q0 EXCEPT !.candidates = f.kept], f.map, 1)

complete_breakerBeforeResolve(q, map, plan, t) ==
    LET q0 == [q EXCEPT !.classification = plan.classification,
                        !.sensitivity = plan.sensitivity,
                        !.forceModel = plan.forceModel,
                        !.ranked = plan.ranked]
    IN IF plan.forceModel # Undefined
       THEN IF ~resolveModel(plan.forceModel)
            THEN [call |-> Throw(q0, "Unknown model"),
                  map |-> getBreaker(map, plan.forceModel)]
            ELSE tryModels([q0 EXCEPT !.candidates = <<plan.forceModel>>],
                           map, 1)
       ELSE LET f == filterByBreaker(plan.ranked, map, t) IN
            IF f.kept = <<>>
            THEN [call |-> Throw(q0, "No models available"), map |-> f.map]
            ELSE tryModels([q0 EXCEPT !.candidates = f.kept], f.map, 1)

complete_noEmptyCheck(q, map, plan, t) ==
    LET q0 == [q EXCEPT !.classification = plan.classification,
                        !.sensitivity = plan.sensitivity,
                        !.forceModel = plan.forceModel,
                        !.ranked = plan.ranked]
    IN IF plan.forceModel # Undefined
       THEN IF ~resolveModel(plan.forceModel)
            THEN [call |-> Throw(q0, "Unknown model"), map |-> map]
            ELSE tryModels([q0 EXCEPT !.candidates = <<plan.forceModel>>],
                           map, 1)
       ELSE LET f == filterByBreaker(plan.ranked, map, t) IN
            tryModels([q0 EXCEPT !.candidates = f.kept], f.map, 1)

\* complete(), from the resumption after buildClassification up to the
\* first await of tryModels
complete(q, map, plan, t) ==
    LET q0 == [q EXCEPT !.classification = plan.classification,
                        !.sensitivity = plan.sensitivity,
                        !.forceModel = plan.forceModel,
                        !.ranked = plan.ranked]
    IN IF plan.forceModel # Undefined
       THEN IF ~resolveModel(plan.forceModel)
            THEN [call |-> Throw(q0, "Unknown model"), map |-> map]
            ELSE tryModels([q0 EXCEPT !.candidates = <<plan.forceModel>>],
                           map, 1)
       ELSE LET f == filterByBreaker(plan.ranked, map, t) IN
            IF f.kept = <<>>
            THEN [call |-> Throw(q0, "No models available"), map |-> f.map]
            ELSE tryModels([q0 EXCEPT !.candidates = f.kept], f.map, 1)

\* the LogEntry of a successful call, as far as modelled
LogEntry(q, id) ==
    [category |-> q.classification.category,
     confidence |-> q.classification.confidence,
     source |-> q.classification.source,
     model |-> id]

\* this.auditLog.insert(entry).catch(...): the promise is not awaited
Dispatch(entry) == [entry |-> entry, promise |-> "pending"]

onWithRetryThrew_auditsFailure(q, map, id, t) ==
    tryModels([q EXCEPT !.failures[id] = @ + 1,
                        !.inserts = Append(@, Dispatch(LogEntry(q, id)))],
              [map EXCEPT ![id] = recordFailure(@, t)],
              q.idx + 1)

\* the catch block of tryModels for candidates[idx]: recordFailure, then on
\* to the next candidate
onWithRetryThrew(q, map, id, t) ==
    tryModels([q EXCEPT !.failures[id] = @ + 1],
              [map EXCEPT ![id] = recordFailure(@, t)],
              q.idx + 1)

\* what llmClient.complete resolves with: the parsed body of a 2xx answer,
\* which no client checks against OpenRouterApiResponse.  "ok" has
\* choices[0].message; "noChoices" is a body without it (an error object,
\* an empty choices array).
ProviderData == {"ok", "noChoices"}

onWithRetryReturned_fallbackOnRetry(q, map, id, t) ==
    LET q1 == [q EXCEPT !.successes[id] = @ + 1,
                        !.inserts = Append(@, Dispatch(LogEntry(q, id)))]
        m1 == [map EXCEPT ![id] = recordSuccess(@)]
    IN IF q.retry.value = "noChoices"
       THEN onWithRetryThrew(q1, m1, id, t)
       ELSE [call |-> [q1 EXCEPT !.pc = "done",
                                 !.response =
                                     [model |-> id,
                                      category |-> q.classification.category,
                                      fallbackUsed |-> q.retry.calls > 1]],
             map |-> m1]

\* tryModels after withRetry returned for candidates[idx]: the cost is
\* computed, recordSuccess, the audit insert is dispatched, and the response
\* is built and returned; reading data.choices[0].message of a body without
\* it throws a TypeError inside the try block, into the catch block
onWithRetryReturned(q, map, id, t) ==
    LET q1 == [q EXCEPT !.successes[id] = @ + 1,
                        !.inserts = Append(@, Dispatch(LogEntry(q, id)))]
        m1 == [map EXCEPT ![id] = recordSuccess(@)]
    IN IF q.retry.value = "noChoices"
       THEN onWithRetryThrew(q1, m1, id, t)
       ELSE [call |-> [q1 EXCEPT !.pc = "done",
                                 !.response =
                                     [model |-> id,
                                      category |-> q.classification.category,
                                      fallbackUsed |-> id # q.candidates[1]]],
             map |-> m1]

\* tryModels after a step of the withRetry invocation of candidates[idx]
afterRetryStep(q, map, rt1, t) ==
    LET id == q.candidates[q.idx]
        q1 == [q EXCEPT !.retry = rt1,
                        !.calls[id] = @ + (rt1.calls - q.retry.calls)]
    IN IF rt1.pc = "returned" THEN onWithRetryReturned(q1, map, id, t)
       ELSE IF rt1.pc = "thrown" THEN onWithRetryThrew(q1, map, id, t)
       ELSE IF rt1.pc = "sleep"
       THEN [call |-> [q1 EXCEPT !.pc = "backoff"], map |-> map]
       ELSE [call |-> [q1 EXCEPT !.pc = "provider"], map |-> map]

onInsertRejected_failsModel(q, map, i, t) ==
    LET id == q.inserts[i].entry.model IN
    [call |-> [q EXCEPT !.failures[id] = @ + 1],
     map |-> [map EXCEPT ![id] = recordFailure(@, t)]]

\* the promise of inserts[i] rejects: the .catch handler logs the error
onInsertRejected(q, map, i, t) == [call |-> q, map |-> map]

(***************************************************************************)
(* A provider client's complete() (src/clients): the 30 s abort timer      *)
(* around fetch, then the body read.  Time is in ms.                       *)
(***************************************************************************)
OPENROUTER_TIMEOUT_MS == 30000

\* calls counts the complete() calls made on the client so far
IdleHttp ==
    [pc |-> "idle", start |-> 0, timer |-> FALSE, outcome |-> Undefined,
     latencyMs |-> 0, calls |-> 0]

\* complete() up to await fetch(...): the timer is set, start is taken
clientComplete(h, t) ==
    [h EXCEPT !.pc = "fetch", !.start = t, !.timer = TRUE, !.calls = @ + 1]

\* fetch resolved with a response: finally clears the timer, then res.ok
onFetchResolved(h, ok) ==
    IF ok THEN [h EXCEPT !.timer = FALSE, !.pc = "body"]
    ELSE [h EXCEPT !.timer = FALSE, !.pc = "thrown", !.outcome = "HTTP"]

\* fetch rejected: finally clears the timer and the rejection goes on
onFetchRejected(h, err) ==
    [h EXCEPT !.timer = FALSE, !.pc = "thrown", !.outcome = err]

\* the timer's callback: abort.abort() rejects the pending fetch
onTimer(h) == onFetchRejected(h, Cancelled)

\* res.json() resolved at time t
onBodyResolved(h, data, t) ==
    [h EXCEPT !.pc = "returned", !.outcome = data, !.latencyMs = t - h.start]

\* res.json() rejected
onBodyRejected(h) == [h EXCEPT !.pc = "thrown", !.outcome = "SyntaxError"]

(***************************************************************************)
(* SemanticClassifierService and EmbeddingService (src/services)           *)
(* A confidence is the exact quotient [n, d] the code rounds to a double;  *)
(* thresholds are in hundredths.  A hit's similarity is in halves (1 is    *)
(* 0.5, 2 is 1.0), so that every sum of weights is exact as a double too.  *)
(***************************************************************************)
CONFIDENCE_HIGH == 75
K_NORMAL == 7
K_EXPANDED == 20
CACHE_TTL_SECONDS == 86400

CategoryOrder == <<"simple", "code", "reasoning", "data_analysis", "creative">>

RECURSIVE GCD(_, _)
GCD(a, b) == IF b = 0 THEN a ELSE GCD(b, a % b)

\* the quotient n / d in lowest terms
Frac(n, d) == LET g == GCD(n, d) IN [n |-> n \div g, d |-> d \div g]

Less(x, y) == x.n * y.d < y.n * x.d

\* x < h / 100
BelowHundredths(x, h) == 100 * x.n < h * x.d

\* the prompts given to the classifier; trim().toLowerCase() and length
Prompts == {"hello", " Hello   ", "sort this"}
TrimLower ==
    [p \in Prompts |-> IF p = "sort this" THEN "sort this" ELSE "hello"]
TextLength ==
    [p \in Prompts |-> IF p = "hello" THEN 5 ELSE 9]

\* Math.ceil(text.length / 4)
estimateTokens(text) == (TextLength[text] + 3) \div 4

\* String(Bun.hash(prompt.trim().toLowerCase())): one value per
\* normalised text
hashPrompt(prompt) == <<"Bun.hash", TrimLower[prompt]>>

cacheKey(prompt) == <<"llm:cls:", hashPrompt(prompt)>>

\* hit.score to the power 3 when exponentialWeight, hit.score otherwise,
\* in units of 1/2 and 1/8
Weight(hit, exponentialWeight) ==
    IF exponentialWeight THEN hit.score * hit.score * hit.score
    ELSE hit.score

RECURSIVE SumWeights(_, _, _)
SumWeights(hits, cat, exponentialWeight) ==
    IF hits = <<>> THEN 0
    ELSE (IF Head(hits).category = cat
          THEN Weight(Head(hits), exponentialWeight) ELSE 0)
         + SumWeights(Tail(hits), cat, exponentialWeight)

RECURSIVE SumAll(_, _)
SumAll(f, S) ==
    IF S = {} THEN 0
    ELSE LET x == CHOOSE y \in S : TRUE IN f[x] + SumAll(f, S \ {x})

\* searchAndScore once qdrant.search has resolved with hits
searchAndScore(hits, prompt, exponentialWeight) ==
    LET scores == [c \in TaskCategory |->
                      SumWeights(hits, c, exponentialWeight)]
        sum == SumAll(scores, TaskCategory)
        total == IF sum = 0 THEN 1 ELSE sum
        normalized == [c \in TaskCategory |-> Frac(scores[c], total)]
        \* the stable descending sort of Object.entries puts first the
        \* first category, in key order, that no other exceeds
        first == CHOOSE i \in DOMAIN CategoryOrder :
                    /\ \A c \in TaskCategory :
                           ~Less(normalized[CategoryOrder[i]], normalized[c])
                    /\ \A j \in 1..(i - 1) :
                           \E c \in TaskCategory :
                               Less(normalized[CategoryOrder[j]],
                                    normalized[c])
    IN [category |-> CategoryOrder[first],
        confidence |-> normalized[CategoryOrder[first]],
        scores |-> normalized,
        \* `${category}(${score.toFixed(2)})`, the score in hundredths
        signals |-> [i \in DOMAIN hits |->
                        <<hits[i].category, hits[i].score * 50>>],
        estimatedInputTokens |-> estimateTokens(prompt),
        source |-> "semantic"]

\* JSON.stringify and JSON.parse of a ClassificationResult: every field
\* is a string, a finite number or an array or object of those, which
\* JSON gives back unchanged
stringify(result) == <<"json", result>>
parse(text) == text[2]

\* JavaScript truthiness of what redis.get resolved with: null (<<>>) is
\* falsy, a stored JSON text is never empty
Truthy(cached) == cached # <<>>

\* one classify() call: its position, its locals, what it returned, and
\* the calls it has made to embed, qdrant.search (their limits),
\* redis.set and redis.expire
IdleClassify ==
    [pc |-> "idle", prompt |-> Undefined, first |-> <<>>, expanded |-> <<>>,
     result |-> <<>>, ret |-> <<>>, embeds |-> 0, searches |-> <<>>,
     sets |-> 0, expires |-> 0]

\* classify(prompt) up to await redis.get(cacheKey)
classify(q, prompt) == [q EXCEPT !.pc = "get", !.prompt = prompt]

Return(q, value) == [q EXCEPT !.pc = "done", !.ret = <<value>>]

onGet_keepsSource(q, cached) ==
    IF Truthy(cached)
    THEN Return(q, parse(cached))
    ELSE [q EXCEPT !.pc = "embed", !.embeds = @ + 1]

\* redis.get resolved
onGet(q, cached) ==
    IF Truthy(cached)
    THEN Return(q, [parse(cached) EXCEPT !.source = "cache"])
    ELSE [q EXCEPT !.pc = "embed", !.embeds = @ + 1]

\* embed resolved: the first search is issued
onEmbed(q) ==
    [q EXCEPT !.pc = "search", !.searches = Append(@, K_NORMAL)]

cacheOrReturn_cachesAboveMin(q, result) ==
    IF ~BelowHundredths(result.confidence, CONFIDENCE_MIN)
    THEN [q EXCEPT !.pc = "set", !.result = <<result>>, !.sets = @ + 1]
    ELSE Return([q EXCEPT !.result = <<result>>], result)

\* step 5 and the return
cacheOrReturn(q, result) ==
    IF ~BelowHundredths(result.confidence, CONFIDENCE_HIGH)
    THEN [q EXCEPT !.pc = "set", !.result = <<result>>, !.sets = @ + 1]
    ELSE Return([q EXCEPT !.result = <<result>>], result)

\* the first searchAndScore resolved
onSearch(q, hits) ==
    LET result == searchAndScore(hits, q.prompt, FALSE)
        q1 == [q EXCEPT !.first = <<result>>]
    IN IF BelowHundredths(result.confidence, CONFIDENCE_HIGH)
       THEN [q1 EXCEPT !.pc = "expanded", !.result = <<result>>,
                       !.searches = Append(@, K_EXPANDED)]
       ELSE cacheOrReturn(q1, result)

onExpanded_replacesOnTie(q, hits) ==
    LET expanded == searchAndScore(hits, q.prompt, TRUE)
        result == q.result[1]
        q1 == [q EXCEPT !.expanded = <<expanded>>]
    IN IF ~Less(expanded.confidence, result.confidence)
       THEN cacheOrReturn(q1, [expanded EXCEPT !.source = "semantic"])
       ELSE cacheOrReturn(q1, result)

\* the expanded searchAndScore resolved
onExpanded(q, hits) ==
    LET expanded == searchAndScore(hits, q.prompt, TRUE)
        result == q.result[1]
        q1 == [q EXCEPT !.expanded = <<expanded>>]
    IN IF Less(result.confidence, expanded.confidence)
       THEN cacheOrReturn(q1, [expanded EXCEPT !.source = "semantic"])
       ELSE cacheOrReturn(q1, result)

\* redis.set resolved: SET stores the value and discards any TTL
onSet(q, store) ==
    [call |-> [q EXCEPT !.pc = "expire", !.expires = @ + 1],
     cache |-> (cacheKey(q.prompt) :>
                   [value |-> stringify(q.result[1]), ttl |-> -1]) @@ store]

\* redis.expire resolved: EXPIRE sets the TTL of the key if it exists
onExpire(q, store) ==
    LET key == cacheKey(q.prompt) IN
    [call |-> Return(q, q.result[1]),
     cache |-> IF key \in DOMAIN store
               THEN [store EXCEPT ![key].ttl = CACHE_TTL_SECONDS]
               ELSE store]

\* one addExample() call: its position, its arguments, the id it made
IdleAdd ==
    [pc |-> "idle", text |-> Undefined, category |-> Undefined, id |-> -1]

\* addExample(text, category) up to await embed(text)
addExample(text, category) ==
    [IdleAdd EXCEPT !.pc = "embed", !.text = text, !.category = category]

\* embed resolved at time t: the point is built with id Date.now() and
\* qdrant.upsert is issued
onAddEmbed(a, t) == [a EXCEPT !.pc = "upsert", !.id = t]

\* qdrant.upsert resolved: the point replaces any point of the same id;
\* writes counts the upserts the id has received
onUpsert(a, coll) ==
    (a.id :> [category |-> a.category, text |-> a.text,
              source |-> "feedback",
              writes |-> IF a.id \in DOMAIN coll
                         THEN coll[a.id].writes + 1 ELSE 1]) @@ coll

\* an awaited promise rejected: nothing in classify catches it, the call
\* ends and its locals are gone
onReject(q) == [IdleClassify EXCEPT !.pc = "error", !.prompt = q.prompt]

(***************************************************************************)
(* SpecCB: one breaker, any sequence of canExecute / recordSuccess /       *)
(* recordFailure calls, the clock advancing between them.                  *)
(***************************************************************************)
\* consec saturates one above the threshold; in CLOSED it never gets there
ConsecCap == CIRCUIT_FAILURE_THRESHOLD + 1
HoSuccCap == CIRCUIT_SUCCESS_THRESHOLD + 1

CBIdle ==
    /\ cb = NewBreaker
    /\ cbOp = "new"
    /\ cbRet = TRUE
    /\ consec = 0
    /\ hoSucc = 0
    /\ reopenAt = -1

RetryIdle ==
    /\ rt = retryStart(RouterRetryConfig)
    /\ rtLog = <<>>

Callers == 1..NumCallers

FnIdle ==
    /\ fnArgs = <<>>
    /\ fnRet = <<>>

Classifiers == 1..NumClassifiers

ClsIdle ==
    /\ cache = [k \in {} |-> <<>>]
    /\ cls = [c \in Classifiers |-> IdleClassify]
    /\ clsStarted = 0
    /\ points = [i \in {} |-> <<>>]
    /\ adds = [call |-> [c \in Classifiers |-> IdleAdd], ids |-> <<>>]

HttpIdle == http = IdleHttp

RouterIdle ==
    /\ breakers = [m \in {} |-> NewBreaker]
    /\ reqs = [r \in Callers |-> IdleCall]
    /\ started = 0

InitCB ==
    /\ now = 0
    /\ CBIdle
    /\ RetryIdle
    /\ RouterIdle
    /\ FnIdle
    /\ ClsIdle
    /\ HttpIdle

CBTick ==
    /\ now + CBTickMs <= CBMaxNow
    /\ now' = now + CBTickMs
    /\ cbOp' = "tick"
    /\ UNCHANGED <<cb, cbRet, consec, hoSucc, reopenAt, fnVars, clsVars,
                   httpVars, retryVars, routerVars>>

CBCanExecute ==
    LET r == canExecute(cb, now) IN
    /\ cb' = r.cb
    /\ cbRet' = r.ret
    /\ cbOp' = "canExecute"
    /\ hoSucc' = IF cb.state # "HALF_OPEN" /\ r.cb.state = "HALF_OPEN"
                 THEN 0 ELSE hoSucc
    /\ UNCHANGED <<now, consec, reopenAt, fnVars, clsVars, httpVars,
                   retryVars, routerVars>>

CBRecordSuccess ==
    /\ cb' = recordSuccess(cb)
    /\ cbOp' = "recordSuccess"
    /\ consec' = 0
    /\ hoSucc' = IF cb.state = "HALF_OPEN" THEN Min(hoSucc + 1, HoSuccCap)
                 ELSE hoSucc
    /\ UNCHANGED <<now, cbRet, reopenAt, fnVars, clsVars, httpVars, retryVars,
                   routerVars>>

CBRecordFailure ==
    /\ cb' = recordFailure(cb, now)
    /\ cbOp' = "recordFailure"
    /\ consec' = Min(consec + 1, ConsecCap)
    /\ reopenAt' = IF cb.state = "HALF_OPEN" THEN now ELSE reopenAt
    /\ UNCHANGED <<now, cbRet, hoSucc, fnVars, clsVars, httpVars, retryVars,
                   routerVars>>

NextCB ==
    \/ CBTick
    \/ CBCanExecute
    \/ CBRecordSuccess
    \/ CBRecordFailure

SpecCB == InitCB /\ [][NextCB]_vars

(***************************************************************************)
(* Claims about the CircuitBreaker (checked under SpecCB)                  *)
(***************************************************************************)

\* C1: a CLOSED breaker opens exactly on the recordFailure that makes
\* failureThreshold failures since its creation or its last recordSuccess;
\* fewer leave it CLOSED, a recordSuccess in CLOSED resets failureCount and
\* keeps it CLOSED, and on opening both counters are 0.
C1_OpensAtThreshold ==
    [][cb.state = "CLOSED" =>
        /\ cb'.state \in {"CLOSED", "OPEN"}
        /\ (cb'.state = "OPEN" <=>
                (cbOp' = "recordFailure"
                 /\ consec' = CIRCUIT_FAILURE_THRESHOLD))
        /\ (cbOp' = "recordFailure" /\ cb'.state = "CLOSED" =>
                /\ consec' < CIRCUIT_FAILURE_THRESHOLD
                /\ cb'.failureCount = consec')
        /\ (cbOp' = "recordSuccess" =>
                cb'.state = "CLOSED" /\ cb'.failureCount = 0)
        /\ (cb'.state = "OPEN" =>
                cb'.failureCount = 0 /\ cb'.successCount = 0)]_vars

C1_Witness ==
    /\ cb.state = "OPEN"
    /\ cbOp = "recordFailure"
    /\ consec = CIRCUIT_FAILURE_THRESHOLD
    /\ reopenAt = -1

\* C2: canExecute() on an OPEN breaker returns false and changes nothing
\* while now - lastFailureTime < halfOpenTimeoutMs, and otherwise moves the
\* breaker to HALF_OPEN and returns true.
C2_OpenBlocksUntilTimeout ==
    [][cbOp' = "canExecute" /\ cb.state = "OPEN" =>
        IF now - cb.lastFailureTime < CIRCUIT_HALF_OPEN_TIMEOUT_MS
        THEN cbRet' = FALSE /\ cb' = cb
        ELSE cbRet' = TRUE /\ cb'.state = "HALF_OPEN"]_vars

C2_Witness ==
    /\ cb.state = "HALF_OPEN"
    /\ cbOp = "canExecute"
    /\ cbRet = TRUE
    /\ now - cb.lastFailureTime = CIRCUIT_HALF_OPEN_TIMEOUT_MS

\* C3: in HALF_OPEN canExecute() is true; a recordSuccess increments
\* successCount and the breaker stays HALF_OPEN, except the successThreshold-th
\* success since entering HALF_OPEN, which closes it with both counters 0;
\* nothing else closes it.
C3_HalfOpenClosesAtThreshold ==
    [][cb.state = "HALF_OPEN" =>
        /\ (cbOp' = "canExecute" => cbRet' = TRUE /\ cb' = cb)
        /\ (cbOp' = "recordSuccess" =>
                IF hoSucc' = CIRCUIT_SUCCESS_THRESHOLD
                THEN /\ cb'.state = "CLOSED"
                     /\ cb'.failureCount = 0
                     /\ cb'.successCount = 0
                ELSE /\ cb'.state = "HALF_OPEN"
                     /\ hoSucc' < CIRCUIT_SUCCESS_THRESHOLD
                     /\ cb'.successCount = cb.successCount + 1
                     /\ cb'.successCount = hoSucc')
        /\ (cb'.state = "CLOSED" =>
                cbOp' = "recordSuccess"
                /\ hoSucc' = CIRCUIT_SUCCESS_THRESHOLD)]_vars

C3_Witness ==
    /\ cb.state = "CLOSED"
    /\ cbOp = "recordSuccess"
    /\ hoSucc = CIRCUIT_SUCCESS_THRESHOLD

\* C4: a recordFailure in HALF_OPEN, whatever successCount is, opens the
\* breaker, zeroes both counters and sets lastFailureTime to now; for the
\* halfOpenTimeoutMs that follow the breaker is OPEN and canExecute() is false.
C4_HalfOpenFailureReopens ==
    /\ [][cbOp' = "recordFailure" /\ cb.state = "HALF_OPEN" =>
            /\ cb'.state = "OPEN"
            /\ cb'.failureCount = 0
            /\ cb'.successCount = 0
            /\ cb'.lastFailureTime = now]_vars
    /\ [](reopenAt # -1 /\ now - reopenAt < CIRCUIT_HALF_OPEN_TIMEOUT_MS =>
            cb.state = "OPEN" /\ ~canExecute(cb, now).ret)

C4_Witness ==
    /\ cb.state = "OPEN"
    /\ cbOp = "recordFailure"
    /\ reopenAt = now
    /\ hoSucc = 1

(***************************************************************************)
(* SpecRetry: one withRetry(fn, config) invocation; fn resolves or rejects *)
(* each time it is invoked, as the environment chooses.                    *)
(***************************************************************************)
Errors == {"E1", "E2", Cancelled}
Values == {"V1", "V2"}
BaseDelays == {0, RETRY_BASE_DELAY_MS}

InitRetry ==
    /\ now = 0
    /\ CBIdle
    /\ \E n \in 0..MaxAttempts, d \in BaseDelays :
           rt = retryStart([attempts |-> n, baseDelayMs |-> d])
    /\ rtLog = <<>>
    /\ RouterIdle
    /\ FnIdle
    /\ ClsIdle
    /\ HttpIdle

RetryFnResolves ==
    /\ rt.pc = "call"
    /\ \E v \in Values :
           /\ rt' = retryOnResolve(rt, v)
           /\ rtLog' = Append(rtLog, v)
    /\ UNCHANGED <<now, cbVars, fnVars, clsVars, httpVars, routerVars>>

RetryFnRejects ==
    /\ rt.pc = "call"
    /\ \E e \in Errors :
           /\ rt' = retryOnReject(rt, e)
           /\ rtLog' = Append(rtLog, e)
    /\ UNCHANGED <<now, cbVars, fnVars, clsVars, httpVars, routerVars>>

RetryWake ==
    /\ rt.pc = "sleep"
    /\ rt' = retryOnWake(rt)
    /\ UNCHANGED <<now, cbVars, fnVars, clsVars, httpVars, rtLog, routerVars>>

NextRetry ==
    \/ RetryFnResolves
    \/ RetryFnRejects
    \/ RetryWake

SpecRetry == InitRetry /\ [][NextRetry]_vars

\* C5: with attempts = n >= 1, fn is invoked one at a time, at most n times
\* and never after its first success; withRetry returns the value of the
\* first successful invocation, and if all n invocations fail it has made
\* exactly n of them and throws the error of the n-th.
C5_RetryUntilFirstSuccess ==
    rt.cfg.attempts >= 1 =>
        /\ rt.calls <= rt.cfg.attempts
        /\ rt.calls = Len(rtLog) + (IF rt.pc = "call" THEN 1 ELSE 0)
        /\ \A i \in 1..Len(rtLog) : i < Len(rtLog) => rtLog[i] \in Errors
        /\ (rt.pc = "returned" <=>
                Len(rtLog) > 0 /\ rtLog[Len(rtLog)] \in Values)
        /\ (rt.pc = "returned" => rt.value = rtLog[Len(rtLog)])
        /\ (rt.pc = "thrown" <=>
                /\ Len(rtLog) = rt.cfg.attempts
                /\ \A i \in 1..Len(rtLog) : rtLog[i] \in Errors)
        /\ (rt.pc = "thrown" =>
                rt.calls = rt.cfg.attempts
                /\ rt.thrown = rtLog[rt.cfg.attempts])

C5_Witness ==
    /\ rt.cfg.attempts = 3
    /\ rt.pc = "thrown"
    /\ rtLog = <<"E1", "E2", "E1">>
    /\ rt.thrown = "E1"

(***************************************************************************)
(* The steps of a complete() call.  A call advances from one await to the  *)
(* next in one step.  llmClient.complete resolves or rejects as the        *)
(* environment chooses.                                                    *)
(***************************************************************************)
\* complete(prompt, opts) is invoked: buildClassification is awaited.  The
\* call is held in the first free slot of reqs.
BeginUpTo(r, max) ==
    /\ reqs[r].pc = "idle"
    /\ \A r2 \in 1..(r - 1) : reqs[r2].pc # "idle"
    /\ started < max
    /\ reqs' = [reqs EXCEPT ![r] = [IdleCall EXCEPT !.pc = "classify"]]
    /\ started' = started + 1
    /\ UNCHANGED <<now, cbVars, fnVars, clsVars, httpVars, retryVars,
                   breakers>>

Begin(r) == BeginUpTo(r, MaxCompletes)

\* classifier.classify rejects: complete() rejects with that error
ClassifyFails(r) ==
    /\ reqs[r].pc = "classify"
    /\ reqs' = [reqs EXCEPT ![r] = Throw(@, "classifier error")]
    /\ UNCHANGED <<now, cbVars, fnVars, clsVars, httpVars, retryVars,
                   breakers, started>>

\* buildClassification resolves; candidates are assembled and the first
\* provider call is made
Assemble(r, plan) ==
    /\ reqs[r].pc = "classify"
    /\ LET c == complete(reqs[r], breakers, plan, now) IN
           /\ reqs' = [reqs EXCEPT ![r] = c.call]
           /\ breakers' = c.map
    /\ UNCHANGED <<now, cbVars, fnVars, clsVars, httpVars, retryVars, started>>

\* llmClient.complete resolves with data
ProviderResolvesWith(r, data) ==
    /\ reqs[r].pc = "provider"
    /\ LET c == afterRetryStep(reqs[r], breakers,
                               retryOnResolve(reqs[r].retry, data), now) IN
           /\ reqs' = [reqs EXCEPT ![r] = c.call]
           /\ breakers' = c.map
    /\ UNCHANGED <<now, cbVars, fnVars, clsVars, httpVars, retryVars, started>>

ProviderResolves(r) == \E data \in ProviderData : ProviderResolvesWith(r, data)

\* llmClient.complete rejects (HTTP error, timeout, network error)
ProviderRejects(r) ==
    /\ reqs[r].pc = "provider"
    /\ LET c == afterRetryStep(reqs[r], breakers,
                               retryOnReject(reqs[r].retry, "error"), now) IN
           /\ reqs' = [reqs EXCEPT ![r] = c.call]
           /\ breakers' = c.map
    /\ UNCHANGED <<now, cbVars, fnVars, clsVars, httpVars, retryVars, started>>

\* Bun.sleep(delay) resolves
BackoffEnds(r) ==
    /\ reqs[r].pc = "backoff"
    /\ LET c == afterRetryStep(reqs[r], breakers,
                               retryOnWake(reqs[r].retry), now) IN
           /\ reqs' = [reqs EXCEPT ![r] = c.call]
           /\ breakers' = c.map
    /\ UNCHANGED <<now, cbVars, fnVars, clsVars, httpVars, retryVars, started>>

\* the caller has taken the response or the error
Finish(r) ==
    /\ reqs[r].pc \in {"done", "error"}
    /\ reqs' = [reqs EXCEPT ![r] = IdleCall]
    /\ UNCHANGED <<now, cbVars, fnVars, clsVars, httpVars, retryVars,
                   breakers, started>>

Tick ==
    /\ now + TickMs <= MaxNow
    /\ now' = now + TickMs
    /\ UNCHANGED <<cbVars, fnVars, clsVars, httpVars, retryVars, routerVars>>

Init ==
    /\ now = 0
    /\ CBIdle
    /\ RetryIdle
    /\ RouterIdle
    /\ FnIdle
    /\ ClsIdle
    /\ HttpIdle

\* what classifier.classify resolves with
ClassifierResults ==
    {[category |-> "simple", confidence |-> 30, source |-> "semantic"],
     [category |-> "code", confidence |-> 50, source |-> "semantic"],
     [category |-> "creative", confidence |-> 90, source |-> "cache"],
     [category |-> "reasoning", confidence |-> 75, source |-> "semantic"]}

NoOptions ==
    [strategy |-> Undefined, sensitivity |-> Undefined,
     requireContextWindow |-> NoNumber, maxCostPer1MTokens |-> NoNumber,
     forceCategory |-> Undefined, forceModel |-> Undefined]

(***************************************************************************)
(* Spec: complete() calls of NumCallers callers, interleaved at their      *)
(* awaits, with the default options; the classifier is unsure.             *)
(***************************************************************************)
Options == {NoOptions}

Plans ==
    {Plan(o, c) : o \in Options,
                  c \in {x \in ClassifierResults : x.confidence = 30}}

Next ==
    \/ \E r \in Callers : Begin(r)
    \/ \E r \in Callers : ClassifyFails(r)
    \/ \E r \in Callers, plan \in Plans : Assemble(r, plan)
    \/ \E r \in Callers : ProviderResolves(r)
    \/ \E r \in Callers : ProviderRejects(r)
    \/ \E r \in Callers : BackoffEnds(r)
    \/ \E r \in Callers : Finish(r)
    \/ Tick

Spec == Init /\ [][Next]_vars

(***************************************************************************)
(* SpecOpts: one complete() call after the other, with every combination   *)
(* of the routing options.                                                 *)
(***************************************************************************)
StrategyInputs == RoutingStrategy \cup {Undefined}
SensitivityInputs == PrivacySensitivity \cup {Undefined}
ContextWindowInputs == {NoNumber, Num(200000), Num(200001)}
MaxCostInputs == {NoNumber, Num(0), Num(100)}
ForceCategoryInputs == {Undefined, "data_analysis"}
ForceModelInputs == ModelIds \cup {Undefined, "does/not-exist"}

OptionInputs ==
    [strategy : StrategyInputs,
     sensitivity : SensitivityInputs,
     requireContextWindow : ContextWindowInputs,
     maxCostPer1MTokens : MaxCostInputs,
     forceCategory : ForceCategoryInputs,
     forceModel : ForceModelInputs]

PlanInputs == {Plan(o, c) : o \in OptionInputs, c \in ClassifierResults}

NextOpts ==
    \/ Begin(1)
    \/ ClassifyFails(1)
    \/ \E plan \in PlanInputs : Assemble(1, plan)
    \/ ProviderResolves(1)
    \/ ProviderRejects(1)
    \/ BackoffEnds(1)
    \/ Finish(1)
    \/ Tick

SpecOpts == Init /\ [][NextOpts]_vars

(***************************************************************************)
(* SpecSeq: the scenario of one model that always fails ranked ahead of    *)
(* one that always succeeds, one complete() call after the other.          *)
(***************************************************************************)
ScenarioA == "safe/expensive-slow"
ScenarioB == "unsafe/cheap"

ScenarioPlans ==
    {p \in PlanInputs :
        /\ Len(p.ranked) >= 2
        /\ p.ranked[1] = ScenarioA
        /\ p.ranked[2] = ScenarioB}

\* the model the call of caller r is waiting for
Current(r) == reqs[r].candidates[reqs[r].idx]

SeqAssemble == \E plan \in ScenarioPlans : Assemble(1, plan)

SeqProviderResolves ==
    /\ reqs[1].pc = "provider"
    /\ Current(1) = ScenarioB
    /\ ProviderResolvesWith(1, "ok")

SeqProviderRejects ==
    /\ reqs[1].pc = "provider"
    /\ Current(1) = ScenarioA
    /\ ProviderRejects(1)

SeqBegin == BeginUpTo(1, SeqCompletes)

NextSeq ==
    \/ SeqBegin
    \/ SeqAssemble
    \/ SeqProviderResolves
    \/ SeqProviderRejects
    \/ BackoffEnds(1)
    \/ Finish(1)
    \/ Tick

SpecSeq == Init /\ [][NextSeq]_vars

(***************************************************************************)
(* Claims about LlmRouterService.complete                                  *)
(***************************************************************************)
InFallbackLoop(q) == q.pc \in {"provider", "backoff"}
AllFailed(q) == q.pc = "error" /\ q.error = "All models failed"
InTryModels(q) == InFallbackLoop(q) \/ q.pc = "done" \/ AllFailed(q)

\* the candidates before position i / after position i
Before(q, i) == {q.candidates[j] : j \in 1..(i - 1)}
After(q, i) == {q.candidates[j] : j \in (i + 1)..Len(q.candidates)}

\* C6: in one complete call every candidate that has been tried to the end
\* has exactly one outcome recorded on its breaker, however many attempts
\* withRetry made: one recordSuccess if withRetry returned, one
\* recordFailure if it gave up; a candidate not tried has none.
C6_OneOutcomePerCandidate ==
    \A r \in Callers :
        LET q == reqs[r] IN
        /\ \A m \in ModelIds :
               /\ q.successes[m] + q.failures[m] <= 1
               /\ (q.calls[m] = 0 => q.successes[m] + q.failures[m] = 0)
        /\ InTryModels(q) =>
               /\ \A m \in Before(q, q.idx) :
                      q.failures[m] = 1 /\ q.successes[m] = 0
               /\ (InFallbackLoop(q) =>
                      q.successes[Current(r)] + q.failures[Current(r)] = 0)
               /\ (q.pc = "done" =>
                      /\ q.successes[Current(r)] = 1
                      /\ q.failures[Current(r)] = 0)
               /\ (AllFailed(q) =>
                      \A m \in Range(q.candidates) :
                          q.failures[m] = 1 /\ q.successes[m] = 0)

RECURSIVE IsSubSeq(_, _)
IsSubSeq(a, b) ==
    IF a = <<>> THEN TRUE
    ELSE IF b = <<>> THEN FALSE
    ELSE IF Head(a) = Head(b) THEN IsSubSeq(Tail(a), Tail(b))
    ELSE IsSubSeq(a, Tail(b))

\* C7: candidates are tried in ranked order: whenever a call has reached
\* candidate k, every candidate before k has had exactly RETRY_ATTEMPTS
\* provider calls and one failure recorded, and no candidate after k, and
\* no model outside the list, has been called; the response carries the
\* model of the candidate whose call succeeded.
C7_RankedOrder ==
    \A r \in Callers :
        LET q == reqs[r] IN
        InTryModels(q) =>
            /\ q.idx \in 1..Len(q.candidates)
            /\ (q.forceModel = Undefined =>
                    IsSubSeq(q.candidates, q.ranked))
            /\ \A m \in Before(q, q.idx) :
                   q.calls[m] = RETRY_ATTEMPTS /\ q.failures[m] = 1
            /\ \A m \in After(q, q.idx) : q.calls[m] = 0
            /\ \A m \in ModelIds \ Range(q.candidates) : q.calls[m] = 0
            /\ (q.pc # "error" => q.calls[Current(r)] \in 1..RETRY_ATTEMPTS)
            /\ (q.pc = "done" =>
                    /\ q.response.model = Current(r)
                    /\ q.response.model \in Range(q.candidates)
                    /\ q.successes[Current(r)] = 1)

\* C8: a call in which every candidate failed all its RETRY_ATTEMPTS
\* attempts (every provider call to it rejected) ends with 'All models
\* failed', and then each candidate has had exactly RETRY_ATTEMPTS provider
\* calls and one failure recorded, and no audit entry has been dispatched.
EveryAttemptFailed(q) ==
    /\ q.pc \in {"done", "error"}
    /\ q.candidates # <<>>
    /\ \A m \in Range(q.candidates) :
           q.calls[m] = RETRY_ATTEMPTS /\ q.successes[m] = 0

C8_AllModelsFailed ==
    \A r \in Callers :
        LET q == reqs[r] IN
        EveryAttemptFailed(q) =>
            /\ AllFailed(q)
            /\ \A m \in Range(q.candidates) : q.failures[m] = 1
            /\ \A m \in ModelIds \ Range(q.candidates) : q.calls[m] = 0
            /\ q.inserts = <<>>
            /\ q.response = NoResponse

C8_Witness ==
    \E r \in Callers :
        /\ EveryAttemptFailed(reqs[r])
        /\ AllFailed(reqs[r])
        /\ Len(reqs[r].candidates) = 2
        /\ \A m \in Range(reqs[r].candidates) :
               reqs[r].calls[m] = RETRY_ATTEMPTS

\* C9: with A ranked ahead of B, A always failing and B always succeeding,
\* each of the first three complete calls makes 2 calls to A and 1 to B and
\* is answered by B, and the third leaves A's breaker OPEN; a fourth call
\* made within halfOpenTimeoutMs of A's last failure makes no call to A and
\* returns B's response with fallbackUsed = false.
C9_OpenCircuitIsSkipped ==
    /\ [](reqs[1].pc = "done" =>
            /\ reqs[1].response.model = ScenarioB
            /\ (started <= 3 =>
                    /\ reqs[1].calls[ScenarioA] = 2
                    /\ reqs[1].calls[ScenarioB] = 1
                    /\ reqs[1].failures[ScenarioA] = 1)
            /\ (started = 3 => breakers[ScenarioA].state = "OPEN")
            /\ (started = 4 /\ ScenarioA \notin Range(reqs[1].candidates) =>
                    /\ reqs[1].calls[ScenarioA] = 0
                    /\ reqs[1].calls[ScenarioB] = 1
                    /\ reqs[1].response.fallbackUsed = FALSE))
    /\ [][(/\ started = 4
           /\ reqs[1].pc = "classify"
           /\ reqs'[1].pc # "classify"
           /\ now - breakers[ScenarioA].lastFailureTime
                  < CIRCUIT_HALF_OPEN_TIMEOUT_MS)
          => /\ ScenarioA \notin Range(reqs'[1].candidates)
             /\ reqs'[1].candidates[1] = ScenarioB
             /\ reqs'[1].calls[ScenarioA] = 0]_vars

C9_Witness ==
    /\ reqs[1].pc = "done"
    /\ started = 4
    /\ breakers[ScenarioA].state = "OPEN"
    /\ now - breakers[ScenarioA].lastFailureTime < CIRCUIT_HALF_OPEN_TIMEOUT_MS
    /\ reqs[1].calls[ScenarioA] = 0
    /\ reqs[1].response.model = ScenarioB
    /\ reqs[1].response.fallbackUsed = FALSE

\* C10: whatever the routing options, when the effective sensitivity is
\* 'internal' or 'sensitive' no provider call is made to a model whose
\* supportsSensitive is false.
C10_NoSensitiveLeak ==
    \A r \in Callers : \A m \in ModelIds :
        /\ reqs[r].sensitivity \in {"internal", "sensitive"}
        /\ reqs[r].calls[m] > 0
        => Profile(m).supportsSensitive

(***************************************************************************)
(* SpecFilter: one call of filterCandidates on any list of catalogue       *)
(* profiles.                                                               *)
(***************************************************************************)
RECURSIVE SeqsUpTo(_, _)
SeqsUpTo(S, n) ==
    IF n = 0 THEN {<<>>}
    ELSE LET shorter == SeqsUpTo(S, n - 1) IN
         shorter \cup {Append(q, x) : q \in shorter, x \in S}

ModelLists == SeqsUpTo(Range(REGISTRY_MODELS), MaxListLen)

FilterArgs ==
    [models : ModelLists,
     sensitivity : PrivacySensitivity,
     minContextWindow : {0, 200000, 200001},
     maxCostPer1M : {NoNumber, Num(0), Num(30), Num(99), Num(100)}]

InitFilter ==
    /\ now = 0
    /\ CBIdle
    /\ RetryIdle
    /\ RouterIdle
    /\ ClsIdle
    /\ HttpIdle
    /\ fnArgs \in FilterArgs
    /\ fnRet = <<>>

CallFilterCandidates ==
    /\ fnRet = <<>>
    /\ fnRet' = << filterCandidates(fnArgs.models, fnArgs.sensitivity,
                                    fnArgs.minContextWindow,
                                    fnArgs.maxCostPer1M) >>
    /\ UNCHANGED <<now, cbVars, retryVars, routerVars, clsVars, httpVars,
                   fnArgs>>

NextFilter == CallFilterCandidates

SpecFilter == InitFilter /\ [][NextFilter]_vars

\* C11: filterCandidates keeps a model iff (sensitivity is 'public' or the
\* model supportsSensitive) and contextWindow >= minContextWindow and
\* (maxCostPer1M is unset or costPer1MInput <= maxCostPer1M), for every
\* number maxCostPer1M is set to; the kept models are in input order, and
\* an empty input gives an empty result.
C11_KeepsIffAllThree ==
    fnRet # <<>> =>
        LET a == fnArgs
            keeps(m) ==
                /\ (a.sensitivity = "public" \/ m.supportsSensitive)
                /\ m.contextWindow >= a.minContextWindow
                /\ (a.maxCostPer1M = NoNumber
                       \/ m.costPer1MInput <= a.maxCostPer1M[1])
        IN /\ fnRet[1] = SelectSeq(a.models, keeps)
           /\ (a.models = <<>> => fnRet[1] = <<>>)

(***************************************************************************)
(* SpecApi: POST /complete requests, one after the other.  The handler     *)
(* passes body.options ?? {} to LlmRouterService.complete; the promise of  *)
(* each audit insert settles, or not, at any time.                         *)
(***************************************************************************)
ApiOptions ==
    [strategy : {Undefined},
     sensitivity : {Undefined, "public", "sensitive"},
     requireContextWindow : {NoNumber, Num(600000)},
     maxCostPer1MTokens : {NoNumber},
     forceCategory : {Undefined, "data_analysis"},
     forceModel : {Undefined, "unsafe/cheap", "does/not-exist"}]

\* a request body, as far as routing uses it: options is <<>> when absent
ApiBodies == {[options |-> <<>>]} \cup {[options |-> <<o>>] : o \in ApiOptions}

\* body.options ?? {}
OptsOf(body) == IF body.options = <<>> THEN NoOptions ELSE body.options[1]

\* the handler calls router.complete: buildClassification is awaited, and
\* it has invoked classifier.classify unless forceCategory is set
PostComplete(r, body) ==
    /\ reqs[r].pc = "idle"
    /\ started < ApiCompletes
    /\ reqs' = [reqs EXCEPT ![r] =
           [IdleCall EXCEPT
               !.pc = "classify",
               !.body = <<body>>,
               !.classifierCalls =
                   IF OptsOf(body).forceCategory = Undefined THEN 1 ELSE 0]]
    /\ started' = started + 1
    /\ UNCHANGED <<now, cbVars, fnVars, clsVars, httpVars, retryVars,
                   breakers>>

\* classifier.classify rejects
ApiClassifyFails(r) ==
    /\ reqs[r].classifierCalls = 1
    /\ ClassifyFails(r)

\* buildClassification resolves (classifier.classify with c, if invoked)
ApiClassified(r) ==
    /\ reqs[r].pc = "classify"
    /\ reqs[r].body # <<>>
    /\ LET opts == OptsOf(reqs[r].body[1])
           invoked == reqs[r].classifierCalls = 1 IN
       \E c \in (IF invoked THEN ClassifierResults ELSE {NoClassification}) :
           LET res == complete(reqs[r], breakers, Plan(opts, c), now) IN
           /\ reqs' = [reqs EXCEPT ![r] =
                  [res.call EXCEPT
                      !.classified = IF invoked THEN <<c>> ELSE <<>>]]
           /\ breakers' = res.map
    /\ UNCHANGED <<now, cbVars, fnVars, clsVars, httpVars, retryVars, started>>

\* the promise of a dispatched audit insert settles
InsertSettles(r, i, outcome) ==
    /\ i \in DOMAIN reqs[r].inserts
    /\ reqs[r].inserts[i].promise = "pending"
    /\ LET q1 == [reqs[r] EXCEPT !.inserts[i].promise = outcome]
           c == IF outcome = "rejected"
                THEN onInsertRejected(q1, breakers, i, now)
                ELSE [call |-> q1, map |-> breakers] IN
           /\ reqs' = [reqs EXCEPT ![r] = c.call]
           /\ breakers' = c.map
    /\ UNCHANGED <<now, cbVars, fnVars, clsVars, httpVars, retryVars, started>>

InsertResolves(r) ==
    \E i \in DOMAIN reqs[r].inserts : InsertSettles(r, i, "resolved")

InsertRejects(r) ==
    \E i \in DOMAIN reqs[r].inserts : InsertSettles(r, i, "rejected")

NextApi ==
    \/ \E body \in ApiBodies : PostComplete(1, body)
    \/ ApiClassifyFails(1)
    \/ ApiClassified(1)
    \/ ProviderResolves(1)
    \/ ProviderRejects(1)
    \/ BackoffEnds(1)
    \/ InsertResolves(1)
    \/ InsertRejects(1)
    \/ Finish(1)
    \/ Tick

SpecApi == Init /\ [][NextApi]_vars

\* the request of q has passed classification and candidate assembly
Routed(q) ==
    /\ q.body # <<>>
    /\ q.pc \notin {"idle", "classify"}
    /\ q.error # "classifier error"

OptsIn(q) == OptsOf(q.body[1])
ResultIn(q) == IF q.classified = <<>> THEN NoClassification ELSE q.classified[1]

\* C12: when a /complete request omits options.sensitivity, routing behaves
\* as with sensitivity 'public': the ranked candidates are those of the
\* same request with sensitivity 'public', so models with supportsSensitive
\* = false remain eligible.
C12_OmittedSensitivityIsPublic ==
    LET q == reqs[1] IN
    (/\ Routed(q)
     /\ OptsIn(q).sensitivity = Undefined
     /\ OptsIn(q).forceModel = Undefined)
        => q.ranked =
               Plan([OptsIn(q) EXCEPT !.sensitivity = "public"],
                    ResultIn(q)).ranked

\* C13: in every returned response, fallbackUsed is true iff the model used
\* is not the first of the candidates the request tries in ranked order.
C13_FallbackUsedIffNotFirst ==
    \A r \in Callers :
        LET q == reqs[r] IN
        q.pc = "done" =>
            /\ q.response.model = Current(r)
            /\ q.response.fallbackUsed = (q.response.model # q.candidates[1])
            /\ q.response.fallbackUsed = (q.idx > 1)

C13_Witness ==
    /\ reqs[1].pc = "done"
    /\ reqs[1].idx = 1
    /\ reqs[1].calls[Current(1)] = RETRY_ATTEMPTS
    /\ reqs[1].response.fallbackUsed = FALSE
    /\ Len(reqs[1].candidates) = 3

\* C14: a complete call that returns a response has dispatched exactly one
\* audit insert, whose model and category are the response's and whose
\* confidence is the one used for routing (1 when forceCategory is set);
\* a candidate that failed in the call has no audit entry.
C14_OneAuditEntryPerResponse ==
    LET q == reqs[1] IN
    (Routed(q) /\ q.pc = "done") =>
        /\ Len(q.inserts) = 1
        /\ q.inserts[1].entry.model = q.response.model
        /\ q.inserts[1].entry.category = q.response.category
        /\ q.inserts[1].entry.confidence =
               (IF OptsIn(q).forceCategory # Undefined THEN 100
                ELSE ResultIn(q).confidence)
        /\ \A i \in DOMAIN q.inserts :
               q.failures[q.inserts[i].entry.model] = 0

\* C15: the outcome of the audit insert never influences the request: the
\* step in which the insert's promise resolves or rejects changes neither
\* the call (its response, its position, what it recorded) nor any breaker;
\* and the call returns in the step that dispatches the insert, with the
\* promise still pending, a success and no failure recorded on the model.
C15_AuditOutcomeIgnored ==
    /\ [][\A r \in Callers :
            (\E i \in DOMAIN reqs[r].inserts \cap DOMAIN reqs'[r].inserts :
                 /\ reqs[r].inserts[i].promise = "pending"
                 /\ reqs'[r].inserts[i].promise # "pending")
            => /\ [reqs'[r] EXCEPT !.inserts = reqs[r].inserts] = reqs[r]
               /\ breakers' = breakers]_vars
    /\ [][\A r \in Callers :
            (reqs[r].pc = "provider" /\ reqs'[r].pc = "done")
            => LET q == reqs'[r]
                   id == q.response.model IN
               /\ Len(q.inserts) = Len(reqs[r].inserts) + 1
               /\ q.inserts[Len(q.inserts)].promise = "pending"
               /\ q.successes[id] = reqs[r].successes[id] + 1
               /\ q.failures = reqs[r].failures
               /\ breakers'[id] = recordSuccess(breakers[id])]_vars

C15_Witness ==
    /\ reqs[1].pc = "done"
    /\ Len(reqs[1].inserts) = 1
    /\ reqs[1].inserts[1].promise = "rejected"
    /\ \A m \in ModelIds : reqs[1].failures[m] = 0
    /\ breakers[reqs[1].response.model].failureCount = 0

\* C16 as stated: without forceCategory the routed category is 'reasoning'
\* iff the classifier's confidence is strictly below 0.5, and from 0.5 on
\* the routed and returned category is the classifier's.
C16_ReasoningIffLowConfidence ==
    LET q == reqs[1] IN
    (Routed(q) /\ OptsIn(q).forceCategory = Undefined) =>
        /\ (q.classification.category = "reasoning")
               <=> (ResultIn(q).confidence < 50)
        /\ (ResultIn(q).confidence >= 50 =>
               q.classification.category = ResultIn(q).category)
        /\ (q.pc = "done" =>
               q.response.category = q.classification.category)

\* C16 amended: without forceCategory the routed and returned category is
\* 'reasoning' whenever the classifier's confidence is strictly below 0.5,
\* and is the classifier's category (which may itself be 'reasoning') at
\* confidence 0.5 or above.
C16_LowConfidenceEscalates ==
    LET q == reqs[1] IN
    (Routed(q) /\ OptsIn(q).forceCategory = Undefined) =>
        /\ q.classification.category =
               (IF ResultIn(q).confidence < 50 THEN "reasoning"
                ELSE ResultIn(q).category)
        /\ (q.pc = "done" =>
               q.response.category = q.classification.category)

C16_Witness ==
    /\ reqs[1].pc = "done"
    /\ reqs[1].classified # <<>>
    /\ ResultIn(reqs[1]).confidence = 30
    /\ ResultIn(reqs[1]).category = "simple"
    /\ reqs[1].response.category = "reasoning"

\* C17: with forceCategory set, complete never invokes the classifier, and
\* routes, audits and responds with exactly the forced category, with
\* confidence 1 and source 'semantic'; no escalation changes the category.
C17_ForcedCategory ==
    LET q == reqs[1] IN
    (/\ q.body # <<>>
     /\ q.pc # "idle"
     /\ OptsIn(q).forceCategory # Undefined) =>
        /\ q.classifierCalls = 0
        /\ q.classified = <<>>
        /\ q.error # "classifier error"
        /\ (Routed(q) =>
               q.classification =
                   [category |-> OptsIn(q).forceCategory,
                    confidence |-> 100, source |-> "semantic"])
        /\ (q.pc = "done" =>
               /\ q.response.category = OptsIn(q).forceCategory
               /\ \A i \in DOMAIN q.inserts :
                      /\ q.inserts[i].entry.category
                             = OptsIn(q).forceCategory
                      /\ q.inserts[i].entry.confidence = 100)

C17_Witness ==
    /\ reqs[1].pc = "done"
    /\ reqs[1].body # <<>>
    /\ OptsIn(reqs[1]).forceCategory = "data_analysis"
    /\ reqs[1].response.category = "data_analysis"
    /\ reqs[1].classifierCalls = 0

OutagePlans ==
    {p \in PlanInputs : p.forceModel = Undefined /\ Len(p.ranked) <= 1}

OutageAssemble == \E plan \in OutagePlans : Assemble(1, plan)

NextOutage ==
    \/ SeqBegin
    \/ ClassifyFails(1)
    \/ OutageAssemble
    \/ ProviderResolves(1)
    \/ ProviderRejects(1)
    \/ BackoffEnds(1)
    \/ Finish(1)
    \/ Tick

SpecOutage == Init /\ [][NextOutage]_vars

\* the models of q's ranked catalogue candidates none of which has a
\* breaker whose canExecute() is true at time t
NoneUsable(q, map, t) ==
    \A i \in DOMAIN q.ranked :
        ~canExecute(getBreaker(map, q.ranked[i])[q.ranked[i]], t).ret

\* C19: without forceModel, complete fails with 'No models available'
\* exactly when no model both passes the catalogue filter and has a breaker
\* whose canExecute() is true; the failing call makes no provider call,
\* records no outcome on any breaker and dispatches no audit insert.
C19_NoModelsAvailable ==
    [][\A r \in Callers :
          (/\ reqs[r].pc = "classify"
           /\ reqs'[r].pc # "classify"
           /\ reqs'[r].error # "classifier error"
           /\ reqs'[r].forceModel = Undefined)
          => LET q == reqs'[r]
                 failed == q.pc = "error" /\ q.error = "No models available"
             IN /\ failed <=> NoneUsable(q, breakers, now)
                /\ failed =>
                      /\ \A m \in ModelIds :
                             /\ q.calls[m] = 0
                             /\ q.successes[m] = 0
                             /\ q.failures[m] = 0
                      /\ q.inserts = <<>>
                      /\ q.response = NoResponse
                      /\ \A m \in DOMAIN breakers :
                             /\ breakers'[m].failureCount
                                    = breakers[m].failureCount
                             /\ breakers'[m].successCount
                                    = breakers[m].successCount
                             /\ breakers'[m].lastFailureTime
                                    = breakers[m].lastFailureTime]_vars

C19_Witness ==
    /\ reqs[1].pc = "error"
    /\ reqs[1].error = "No models available"
    /\ reqs[1].ranked # <<>>
    /\ \A i \in DOMAIN reqs[1].ranked :
           breakers[reqs[1].ranked[i]].state = "OPEN"

(***************************************************************************)
(* SpecSelect: one call of select on any list of profiles, for each        *)
(* strategy.  The profiles include pairs with equal scores: two that       *)
(* differ in id only, and two whose costs are both at the cap of the cost  *)
(* score.  Scores that are equal here are equal as computed in floating    *)
(* point as well, term by term.                                            *)
(***************************************************************************)
SelectProfiles ==
    Range(REGISTRY_MODELS) \cup
    {makeModel,
     [makeModel EXCEPT !.id = "test/model-b"],
     [makeModel EXCEPT !.id = "test/model-c", !.costPer1MInput = 2000,
                       !.qualityScore =
                           [c \in TaskCategory |->
                               IF c = "code" THEN 9 ELSE 7]],
     [makeModel EXCEPT !.id = "test/model-d", !.costPer1MInput = 5000]}

SelectArgs ==
    [strategy : RoutingStrategy,
     candidates : SeqsUpTo(SelectProfiles, MaxListLen),
     category : {"simple", "code"}]

InitSelect ==
    /\ now = 0
    /\ CBIdle
    /\ RetryIdle
    /\ RouterIdle
    /\ ClsIdle
    /\ HttpIdle
    /\ fnArgs \in SelectArgs
    /\ fnRet = <<>>

CallSelect ==
    /\ fnRet = <<>>
    /\ fnRet' = << select(createRoutingStrategy(fnArgs.strategy),
                          fnArgs.candidates,
                          [category |-> fnArgs.category]) >>
    /\ UNCHANGED <<now, cbVars, retryVars, routerVars, clsVars, httpVars,
                   fnArgs>>

NextSelect == CallSelect

SpecSelect == InitSelect /\ [][NextSelect]_vars

\* the score the claim gives, times 10000: weights in tenths, money in
\* thousandths
ClaimedScore(strategy, m, category) ==
    LET w == IF strategy = "cost_first" THEN <<2, 7, 1>>
             ELSE IF strategy = "quality_first" THEN <<8, 1, 1>>
             ELSE <<5, 3, 2>>
        capped == IF m.costPer1MInput * 5 < 10000
                  THEN m.costPer1MInput * 5 ELSE 10000
        latency == IF m.latencyTier = "fast" THEN 3
                   ELSE IF m.latencyTier = "medium" THEN 2 ELSE 1
    IN w[1] * m.qualityScore[category] * 1000
       + w[2] * (10000 - capped)
       + w[3] * latency * 1000

Count(seq, x) == Cardinality({i \in DOMAIN seq : seq[i] = x})

\* the elements of seq whose key is v, in the order of seq, for each key v
\* of vals from the largest down
RECURSIVE GroupsDescending(_, _, _)
GroupsDescending(seq, key, vals) ==
    IF vals = {} THEN <<>>
    ELSE LET v == CHOOSE x \in vals : \A y \in vals : y <= x IN
         SelectSeq(seq, LAMBDA m : key[m] = v)
             \o GroupsDescending(seq, key, vals \ {v})

\* C20: for each strategy and every candidate list, select returns a
\* permutation of its input of the same length, ordered non-increasingly
\* by the strategy's score, candidates of equal score in input order.
C20_SelectIsStableRanking ==
    fnRet # <<>> =>
        LET in == fnArgs.candidates
            out == fnRet[1]
            key == [m \in Range(in) |->
                       ClaimedScore(fnArgs.strategy, m, fnArgs.category)]
        IN /\ Len(out) = Len(in)
           /\ \A m \in Range(in) \cup Range(out) :
                  Count(out, m) = Count(in, m)
           /\ \A i \in 1..(Len(out) - 1) : key[out[i]] >= key[out[i + 1]]
           /\ out = GroupsDescending(in, key, {key[m] : m \in Range(in)})

C20_Witness ==
    /\ fnRet # <<>>
    /\ fnArgs.strategy = "cost_first"
    /\ fnArgs.category = "simple"
    /\ Ids(fnArgs.candidates)
           = <<"test/model-d", "test/model-c", "safe/cheap-fast">>
    /\ Ids(fnRet[1]) = <<"safe/cheap-fast", "test/model-d", "test/model-c">>

(***************************************************************************)
(* SpecFrame: arrays as objects.  A heap is a sequence of arrays and a     *)
(* reference is an index into it; heap[1] is the provider's this.models    *)
(* and heap[2] a candidate list held by a caller.  Any sequence of select, *)
(* getCandidates and complete calls runs over them; select may be handed   *)
(* either array.  Arrays a call allocates are dropped when it returns,     *)
(* the returned one is kept by value in fnRet.                             *)
(***************************************************************************)
ArraySpread_sameArray(h, ref) == [heap |-> h, ref |-> ref]

\* [...a]: a new array with the elements of a
ArraySpread(h, ref) == [heap |-> Append(h, h[ref]), ref |-> Len(h) + 1]

\* a.sort(cmp) sorts a in place and returns a
ArraySort(h, ref, key) ==
    [heap |-> [h EXCEPT ![ref] = SortDescending(@, key)], ref |-> ref]

\* select(candidates, context) on references
selectAt(h, candidates, class, context) ==
    LET copy == ArraySpread(h, candidates)
        key == [m \in Range(h[candidates]) |->
                   score(class, m, context.category)]
    IN ArraySort(copy.heap, copy.ref, key)

\* filterCandidates(models, ...): models.filter(...) returns a new array
filterCandidatesAt(h, models, sensitivity, minContextWindow, maxCostPer1M) ==
    [heap |-> Append(h, filterCandidates(h[models], sensitivity,
                                         minContextWindow, maxCostPer1M)),
     ref |-> Len(h) + 1]

\* the candidate assembly of complete() over a provider whose this.models
\* is h[models], every breaker fresh; ref 0 stands for a throw
completeAt(h, models, opts, category) ==
    LET strategy == OrDefault(opts.strategy, "balanced")
        sensitivity == OrDefault(opts.sensitivity, "internal")
        requireContextWindow == NumOrDefault(opts.requireContextWindow, 0)
        found == {i \in DOMAIN h[models] : h[models][i].id = opts.forceModel}
        filtered == filterCandidatesAt(h, models, sensitivity,
                        requireContextWindow, opts.maxCostPer1MTokens)
        ranked == selectAt(filtered.heap, filtered.ref,
                           createRoutingStrategy(strategy),
                           [category |-> category])
    IN IF opts.forceModel # Undefined
       THEN IF found = {} THEN [heap |-> h, ref |-> 0]
            ELSE [heap |-> Append(h, <<h[models][CHOOSE i \in found :
                                          \A j \in found : i <= j]>>),
                  ref |-> Len(h) + 1]
       ELSE [heap |-> Append(ranked.heap, ranked.heap[ranked.ref]),
             ref |-> Len(ranked.heap) + 1]

FrameOptions ==
    [strategy : {Undefined, "cost_first", "quality_first"},
     sensitivity : {Undefined, "public"},
     requireContextWindow : {NoNumber},
     maxCostPer1MTokens : {NoNumber, Num(100)},
     forceCategory : {Undefined},
     forceModel : {Undefined, "safe/cheap-fast"}]

\* the registry's models in every order
Catalogues ==
    {q \in SeqsUpTo(Range(REGISTRY_MODELS), Len(REGISTRY_MODELS)) :
        Len(q) = Len(REGISTRY_MODELS) /\ Range(q) = Range(REGISTRY_MODELS)}

InitFrame ==
    /\ now = 0
    /\ CBIdle
    /\ RetryIdle
    /\ RouterIdle
    /\ ClsIdle
    /\ HttpIdle
    /\ fnArgs \in [heap : {<<a, b>> : a \in Catalogues, b \in ModelLists},
                   call : {[op |-> "none", ref |-> 0]}]
    /\ fnRet = <<>>

\* a call returned r: the caller keeps its two arrays and the result
Returned(op, ref, r) ==
    /\ fnArgs' = [heap |-> SubSeq(r.heap, 1, 2),
                  call |-> [op |-> op, ref |-> ref]]
    /\ fnRet' = IF r.ref = 0 THEN <<>> ELSE <<r.heap[r.ref]>>
    /\ UNCHANGED <<now, cbVars, retryVars, routerVars, clsVars, httpVars>>

FrameSelect ==
    \E ref \in 1..2, strategy \in RoutingStrategy,
       category \in {"simple", "code"} :
        Returned("select", ref,
                 selectAt(fnArgs.heap, ref, createRoutingStrategy(strategy),
                          [category |-> category]))

FrameGetCandidates ==
    \E sensitivity \in PrivacySensitivity,
       minContextWindow \in {0, 200001},
       maxCostPer1M \in {NoNumber, Num(100)} :
        Returned("getCandidates", 1,
                 filterCandidatesAt(fnArgs.heap, 1, sensitivity,
                                    minContextWindow, maxCostPer1M))

FrameComplete ==
    \E opts \in FrameOptions, category \in {"simple", "code"} :
        Returned("complete", 1, completeAt(fnArgs.heap, 1, opts, category))

NextFrame == FrameSelect \/ FrameGetCandidates \/ FrameComplete

SpecFrame == InitFrame /\ [][NextFrame]_vars

\* C21: no select, getCandidates or complete call changes the list it is
\* given or the provider's catalogue: both arrays hold the same elements
\* in the same order after the call as before it.
C21_InputsNotMutated ==
    [][fnArgs'.heap = fnArgs.heap]_vars

\* select ran on the catalogue itself and returned it in another order
C21_Witness ==
    /\ fnArgs.call = [op |-> "select", ref |-> 1]
    /\ fnRet # <<>>
    /\ Len(fnRet[1]) = 3
    /\ fnRet[1] # fnArgs.heap[1]

(***************************************************************************)
(* SpecCls: concurrent classify() calls on one SemanticClassifierService   *)
(* over one Redis and one Qdrant.  Each await is a step at which the       *)
(* awaited promise resolves or rejects; the stores are external, so a      *)
(* search resolves with the hits of any of three stores and a key with a   *)
(* TTL may expire at any time.                                             *)
(***************************************************************************)
Hits == [category : {"simple", "code"}, score : {1, 2}]

\* qdrant.search resolves with hits in descending order of score
HitLists ==
    {h \in SeqsUpTo(Hits, MaxHits) :
        \A i \in 1..(Len(h) - 1) : h[i].score >= h[i + 1].score}

\* three stores: empty, one example, and two examples of different
\* categories at different distances
SharedHitLists ==
    {<<>>,
     <<[category |-> "code", score |-> 2]>>,
     <<[category |-> "code", score |-> 2],
       [category |-> "simple", score |-> 1]>>}

\* two prompts with one cache key and different lengths
SharedPrompts == {p \in Prompts : TrimLower[p] = "hello"}

\* qdrant.search(..., {limit: k}) resolves with at most k of them
Limit(lists, k) == {h \in lists : Len(h) <= k}

ClsBegin(c, prompts, max) ==
    /\ cls[c].pc = "idle"
    /\ \A c2 \in 1..(c - 1) : cls[c2].pc # "idle"
    /\ clsStarted < max
    /\ \E prompt \in prompts :
           cls' = [cls EXCEPT ![c] = classify(IdleClassify, prompt)]
    /\ clsStarted' = clsStarted + 1
    /\ UNCHANGED <<now, cbVars, retryVars, routerVars, fnVars, cache,
                   points, adds, httpVars>>

ClsGetResolves(c) ==
    /\ cls[c].pc = "get"
    /\ LET key == cacheKey(cls[c].prompt)
           cached == IF key \in DOMAIN cache THEN cache[key].value ELSE <<>>
       IN cls' = [cls EXCEPT ![c] = onGet(@, cached)]
    /\ UNCHANGED <<now, cbVars, retryVars, routerVars, fnVars, cache,
                   clsStarted, points, adds, httpVars>>

ClsEmbedResolves(c) ==
    /\ cls[c].pc = "embed"
    /\ cls' = [cls EXCEPT ![c] = onEmbed(@)]
    /\ UNCHANGED <<now, cbVars, retryVars, routerVars, fnVars, cache,
                   clsStarted, points, adds, httpVars>>

ClsSearchResolves(c, lists) ==
    /\ cls[c].pc = "search"
    /\ \E hits \in Limit(lists, K_NORMAL) :
           cls' = [cls EXCEPT ![c] = onSearch(@, hits)]
    /\ UNCHANGED <<now, cbVars, retryVars, routerVars, fnVars, cache,
                   clsStarted, points, adds, httpVars>>

ClsExpandedResolves(c, lists) ==
    /\ cls[c].pc = "expanded"
    /\ \E hits \in Limit(lists, K_EXPANDED) :
           cls' = [cls EXCEPT ![c] = onExpanded(@, hits)]
    /\ UNCHANGED <<now, cbVars, retryVars, routerVars, fnVars, cache,
                   clsStarted, points, adds, httpVars>>

ClsSetResolves(c) ==
    /\ cls[c].pc = "set"
    /\ LET r == onSet(cls[c], cache) IN
           /\ cls' = [cls EXCEPT ![c] = r.call]
           /\ cache' = r.cache
    /\ UNCHANGED <<now, cbVars, retryVars, routerVars, fnVars, clsStarted,
                   points, adds, httpVars>>

ClsExpireResolves(c) ==
    /\ cls[c].pc = "expire"
    /\ LET r == onExpire(cls[c], cache) IN
           /\ cls' = [cls EXCEPT ![c] = r.call]
           /\ cache' = r.cache
    /\ UNCHANGED <<now, cbVars, retryVars, routerVars, fnVars, clsStarted,
                   points, adds, httpVars>>

\* redis.get, embed, a search, redis.set or redis.expire rejects
ClsRejects(c) ==
    /\ cls[c].pc \in {"get", "embed", "search", "expanded", "set", "expire"}
    /\ cls' = [cls EXCEPT ![c] = onReject(@)]
    /\ UNCHANGED <<now, cbVars, retryVars, routerVars, fnVars, cache,
                   clsStarted, points, adds, httpVars>>

\* the caller takes the outcome
ClsFinish(c) ==
    /\ cls[c].pc \in {"done", "error"}
    /\ cls' = [cls EXCEPT ![c] = IdleClassify]
    /\ UNCHANGED <<now, cbVars, retryVars, routerVars, fnVars, cache,
                   clsStarted, points, adds, httpVars>>

\* Redis removes a key whose TTL has run out
CacheExpires ==
    /\ \E key \in DOMAIN cache :
           /\ cache[key].ttl # -1
           /\ cache' = [k \in DOMAIN cache \ {key} |-> cache[k]]
    /\ UNCHANGED <<now, cbVars, retryVars, routerVars, fnVars, cls,
                   clsStarted, points, adds, httpVars>>

NextCls ==
    \/ \E c \in Classifiers :
           \/ ClsBegin(c, SharedPrompts, MaxClassify)
           \/ ClsGetResolves(c)
           \/ ClsEmbedResolves(c)
           \/ ClsSearchResolves(c, SharedHitLists)
           \/ ClsExpandedResolves(c, SharedHitLists)
           \/ ClsSetResolves(c)
           \/ ClsExpireResolves(c)
           \/ ClsRejects(c)
           \/ ClsFinish(c)
    \/ CacheExpires

SpecCls == Init /\ [][NextCls]_vars

\* the key of call c and what Redis holds under it
KeyOf(c) == cacheKey(cls[c].prompt)
Computed(q) == q.pc = "done" /\ q.ret[1].source # "cache"
AtLeastHigh(x) == 100 * x.n >= 75 * x.d

\* C22: when redis.get resolves and the cache holds a value under the
\* call's key, classify returns that value with source 'cache' and every
\* other field as stored, having made no embed call, no search and no
\* cache write.
C22_CacheHitReturnsStored ==
    [][\A c \in Classifiers :
          (/\ cls[c].pc = "get"
           /\ cls'[c].pc \notin {"get", "error"}
           /\ KeyOf(c) \in DOMAIN cache)
          => LET stored == cache[KeyOf(c)].value[2]
                 q == cls'[c]
             IN /\ q.pc = "done"
                /\ DOMAIN q.ret[1] = DOMAIN stored
                /\ q.ret[1].source = "cache"
                /\ \A f \in DOMAIN stored \ {"source"} :
                       q.ret[1][f] = stored[f]
                /\ q.embeds = 0 /\ q.searches = <<>>
                /\ q.sets = 0 /\ q.expires = 0
                /\ cache' = cache]_vars

\* a hit on a value another prompt with the same key had stored
C22_Witness ==
    \E c \in Classifiers :
        /\ cls[c].pc = "done"
        /\ cls[c].ret[1].source = "cache"
        /\ cls[c].ret[1].category = "code"
        /\ cls[c].ret[1].estimatedInputTokens
               # estimateTokens(cls[c].prompt)

\* C24: a classification computed by classify is written to the cache
\* iff its final confidence is >= 0.75; every value the cache holds and
\* every result returned with source 'cache' has confidence >= 0.75,
\* whatever the interleaving of the calls.
C24_OnlyConfidentCached ==
    /\ \A c \in Classifiers :
           /\ cls[c].pc \in {"set", "expire"}
                  => AtLeastHigh(cls[c].result[1].confidence)
           /\ Computed(cls[c])
                  => (cls[c].sets = 1
                         <=> AtLeastHigh(cls[c].ret[1].confidence))
           /\ cls[c].sets \in {0, 1}
           /\ (cls[c].pc = "done" /\ cls[c].ret[1].source = "cache")
                  => AtLeastHigh(cls[c].ret[1].confidence)
    /\ \A key \in DOMAIN cache :
           AtLeastHigh(cache[key].value[2].confidence)

\* two concurrent calls both missed and both wrote
C24_Witness ==
    /\ cls[1].pc = "done" /\ cls[1].sets = 1
    /\ cls[2].pc \in {"set", "expire"}
    /\ DOMAIN cache # {}

\* C25: once a classification with confidence >= 0.75 has been computed,
\* classify returns it even if redis.set or redis.expire fails.
C25_WriteFailureStillReturns ==
    [][\A c \in Classifiers :
          cls[c].pc \in {"set", "expire"}
              => /\ cls'[c].pc \in {"set", "expire", "done"}
                 /\ cls'[c].pc = "done"
                        => cls'[c].ret = cls[c].result]_vars

(***************************************************************************)
(* SpecPass: one classify() call, any prompt, every search resolving with  *)
(* any list of at most MaxHits hits.                                       *)
(***************************************************************************)
NextPass ==
    \/ ClsBegin(1, Prompts, 1)
    \/ ClsGetResolves(1)
    \/ ClsEmbedResolves(1)
    \/ ClsSearchResolves(1, HitLists)
    \/ ClsExpandedResolves(1, HitLists)
    \/ ClsSetResolves(1)
    \/ ClsExpireResolves(1)
    \/ ClsRejects(1)
    \/ ClsFinish(1)
    \/ CacheExpires

SpecPass == Init /\ [][NextPass]_vars

\* the weight of the hits of category cat among signals, a hit of score
\* s weighing s when cubic is false and s * s * s when it is true
RECURSIVE SignalWeight(_, _, _)
SignalWeight(signals, cat, cubic) ==
    IF signals = <<>> THEN 0
    ELSE LET s == Head(signals)[2] IN
         (IF Head(signals)[1] # cat THEN 0
          ELSE IF cubic THEN s * s * s ELSE s)
         + SignalWeight(Tail(signals), cat, cubic)

\* r's confidence is the largest share any category has of the weights
PassOf(r, cubic) ==
    LET w == [c \in TaskCategory |-> SignalWeight(r.signals, c, cubic)]
        total == SumAll(w, TaskCategory)
    IN IF total = 0 THEN r.confidence.n = 0
       ELSE /\ r.confidence.n * total = w[r.category] * r.confidence.d
            /\ \A c \in TaskCategory : w[c] <= w[r.category]

\* C23: on a cache miss the first pass has limit 7 and linear weights;
\* the second pass, of limit 20 and cubic weights, runs iff the first
\* pass's confidence is below 0.75; the second pass's result is returned
\* iff it ran and its confidence is strictly higher than the first's,
\* the first pass's result otherwise.
C23_SecondPassRule ==
    \A c \in Classifiers :
        Computed(cls[c]) =>
            LET q == cls[c]
                first == q.first[1]
                ran == q.expanded # <<>>
            IN /\ PassOf(first, FALSE)
               /\ ran <=> 100 * first.confidence.n < 75 * first.confidence.d
               /\ q.searches = IF ran THEN <<7, 20>> ELSE <<7>>
               /\ q.embeds = 1
               /\ ran => PassOf(q.expanded[1], TRUE)
               /\ IF ran /\ first.confidence.n * q.expanded[1].confidence.d
                             < q.expanded[1].confidence.n * first.confidence.d
                  THEN q.ret[1] = q.expanded[1]
                  ELSE q.ret[1] = first

C23_Witness ==
    /\ Computed(cls[1])
    /\ cls[1].expanded # <<>>
    /\ cls[1].expanded[1].confidence = cls[1].first[1].confidence
    /\ cls[1].expanded[1] # cls[1].first[1]
    /\ cls[1].ret = cls[1].first

\* C26: when an invocation of fn fails with the cancellation error,
\* withRetry makes no further invocation and throws that error, however
\* many attempts remain.
C26_CancellationNotRetried ==
    [][(/\ rt.pc = "call"
        /\ Len(rtLog') = Len(rtLog) + 1
        /\ rtLog'[Len(rtLog')] = Cancelled)
       => (rt'.pc = "thrown" /\ rt'.thrown = Cancelled)]_vars

\* the invocations of fn that failed so far
Failures == Cardinality({i \in DOMAIN rtLog : rtLog[i] \in Errors})

\* C27: the sleep after failing attempt i (from 0) is baseDelayMs * 2^i;
\* withRetry sleeps only between a failing attempt and the next one:
\* never before the first attempt, after a success or after the last
\* failing attempt, so n failing attempts give n - 1 sleeps.
C27_BackoffSchedule ==
    /\ \A i \in DOMAIN rt.sleeps :
           rt.sleeps[i] = rt.cfg.baseDelayMs * 2 ^ (i - 1)
    /\ rt.pc \in {"call", "sleep"} => Len(rt.sleeps) = Failures
    /\ rt.pc = "call" => Len(rt.sleeps) = rt.calls - 1
    /\ rt.pc = "returned" => Len(rt.sleeps) = Len(rtLog) - 1
    /\ (rt.pc = "thrown" /\ rt.cfg.attempts >= 1)
           => Len(rt.sleeps) = rt.cfg.attempts - 1
    /\ rt.cfg.attempts = 0 => rt.sleeps = <<>>

C27_Witness ==
    /\ rt.pc = "thrown"
    /\ rt.cfg.attempts = 3
    /\ rt.sleeps = <<RETRY_BASE_DELAY_MS, 2 * RETRY_BASE_DELAY_MS>>

(***************************************************************************)
(* SpecClient: provider calls made one after another on one client, the    *)
(* clock advancing in between.  A timer that is due fires before the clock *)
(* moves on.                                                               *)
(***************************************************************************)
HttpBegin ==
    /\ http.pc = "idle"
    /\ http.calls < MaxHttpCalls
    /\ http' = clientComplete(http, now)
    /\ UNCHANGED <<now, cbVars, retryVars, routerVars, fnVars, clsVars>>

HttpFetchResolves ==
    /\ http.pc = "fetch"
    /\ \E ok \in BOOLEAN : http' = onFetchResolved(http, ok)
    /\ UNCHANGED <<now, cbVars, retryVars, routerVars, fnVars, clsVars>>

HttpFetchRejects ==
    /\ http.pc = "fetch"
    /\ http' = onFetchRejected(http, "E1")
    /\ UNCHANGED <<now, cbVars, retryVars, routerVars, fnVars, clsVars>>

HttpTimerFires ==
    /\ http.timer
    /\ now - http.start >= OPENROUTER_TIMEOUT_MS
    /\ http' = onTimer(http)
    /\ UNCHANGED <<now, cbVars, retryVars, routerVars, fnVars, clsVars>>

HttpBodyResolves ==
    /\ http.pc = "body"
    /\ \E data \in ProviderData : http' = onBodyResolved(http, data, now)
    /\ UNCHANGED <<now, cbVars, retryVars, routerVars, fnVars, clsVars>>

HttpBodyRejects ==
    /\ http.pc = "body"
    /\ http' = onBodyRejected(http)
    /\ UNCHANGED <<now, cbVars, retryVars, routerVars, fnVars, clsVars>>

\* the caller takes the outcome
HttpFinish ==
    /\ http.pc \in {"returned", "thrown"}
    /\ http' = [IdleHttp EXCEPT !.calls = http.calls]
    /\ UNCHANGED <<now, cbVars, retryVars, routerVars, fnVars, clsVars>>

HttpTick ==
    /\ now' = IF http.timer
                  /\ now + HttpTickMs > http.start + OPENROUTER_TIMEOUT_MS
               THEN http.start + OPENROUTER_TIMEOUT_MS
               ELSE now + HttpTickMs
    /\ now' > now
    /\ now' <= HttpMaxNow
    /\ UNCHANGED <<cbVars, retryVars, routerVars, fnVars, clsVars, httpVars>>

NextClient ==
    \/ HttpBegin
    \/ HttpFetchResolves
    \/ HttpFetchRejects
    \/ HttpTimerFires
    \/ HttpBodyResolves
    \/ HttpBodyRejects
    \/ HttpFinish
    \/ HttpTick

SpecClient == Init /\ [][NextClient]_vars

\* C28: a provider call is never in progress more than 30 s after it
\* was sent: by then it has returned, body included, or it has been
\* aborted and has failed.
C28_DeadlineBoundsCall ==
    /\ http.pc \in {"fetch", "body"}
           => now - http.start <= OPENROUTER_TIMEOUT_MS
    /\ http.pc = "returned" => http.latencyMs <= OPENROUTER_TIMEOUT_MS

\* what request r's step records on the breaker b of model id: the
\* success and then the failure it counts in this step, if any
Recorded(r, id, b) ==
    LET b1 == IF reqs'[r].successes[id] = reqs[r].successes[id] + 1
              THEN recordSuccess(b) ELSE b
    IN IF reqs'[r].failures[id] = reqs[r].failures[id] + 1
       THEN recordFailure(b1, now) ELSE b1

\* C29: under any interleaving of complete calls the map holds one
\* breaker per model id: an id enters the map with a fresh CLOSED
\* breaker, no id leaves it, no later lookup replaces or resets the
\* breaker, and every outcome a request records is applied to the
\* breaker as the other requests left it.
C29_OneBreakerPerModel ==
    [][/\ DOMAIN breakers \subseteq DOMAIN breakers'
       /\ \A id \in DOMAIN breakers' \ DOMAIN breakers :
              breakers'[id] = NewBreaker
       /\ \A id \in DOMAIN breakers, r \in Callers :
              reqs'[r] # reqs[r] =>
                  IF reqs[r].pc = "classify"
                  THEN breakers'[id] \in {breakers[id],
                                          canExecute(breakers[id], now).cb}
                  ELSE breakers'[id] = Recorded(r, id, breakers[id])]_vars

\* two requests in progress have each recorded one failure on the same
\* model, and its breaker has counted both
C29_Witness ==
    \E id \in DOMAIN breakers :
        /\ reqs[1].failures[id] = 1
        /\ reqs[2].failures[id] = 1
        /\ reqs[1].pc \in {"provider", "backoff"}
        /\ reqs[2].pc \in {"provider", "backoff"}
        /\ breakers[id].failureCount = 2

(***************************************************************************)
(* SpecFeedback: concurrent addExample() calls on one classifier over one  *)
(* Qdrant collection, the clock advancing by 1 ms between any two steps    *)
(* or not at all.                                                          *)
(***************************************************************************)
AddBegin(c) ==
    /\ adds.call[c].pc = "idle"
    /\ \A c2 \in 1..(c - 1) : adds.call[c2].pc # "idle"
    /\ Len(adds.ids)
           + Cardinality({d \in Classifiers : adds.call[d].pc = "embed"})
           < MaxAdds
    /\ \E text \in SharedPrompts, category \in {"simple", "code"} :
           adds' = [adds EXCEPT !.call[c] = addExample(text, category)]
    /\ UNCHANGED <<now, cbVars, retryVars, routerVars, fnVars, cache, cls,
                   clsStarted, points, httpVars>>

AddEmbedResolves(c) ==
    /\ adds.call[c].pc = "embed"
    /\ adds' = [adds EXCEPT !.call[c] = onAddEmbed(@, now),
                            !.ids = Append(@, now)]
    /\ UNCHANGED <<now, cbVars, retryVars, routerVars, fnVars, cache, cls,
                   clsStarted, points, httpVars>>

AddUpsertResolves_evictsKey(c) ==
    /\ adds.call[c].pc = "upsert"
    /\ points' = onUpsert(adds.call[c], points)
    /\ adds' = [adds EXCEPT !.call[c].pc = "done"]
    /\ cache' = [k \in DOMAIN cache \ {cacheKey(adds.call[c].text)}
                    |-> cache[k]]
    /\ UNCHANGED <<now, cbVars, retryVars, routerVars, fnVars, cls,
                   clsStarted, httpVars>>

AddUpsertResolves(c) ==
    /\ adds.call[c].pc = "upsert"
    /\ points' = onUpsert(adds.call[c], points)
    /\ adds' = [adds EXCEPT !.call[c].pc = "done"]
    /\ UNCHANGED <<now, cbVars, retryVars, routerVars, fnVars, cache, cls,
                   clsStarted, httpVars>>

\* embed or qdrant.upsert rejects: addExample rejects
AddRejects(c) ==
    /\ adds.call[c].pc \in {"embed", "upsert"}
    /\ adds' = [adds EXCEPT !.call[c].pc = "error"]
    /\ UNCHANGED <<now, cbVars, retryVars, routerVars, fnVars, cache, cls,
                   clsStarted, points, httpVars>>

\* the POST /feedback handler takes the outcome
AddFinish(c) ==
    /\ adds.call[c].pc \in {"done", "error"}
    /\ adds' = [adds EXCEPT !.call[c] = IdleAdd]
    /\ UNCHANGED <<now, cbVars, retryVars, routerVars, fnVars, cache, cls,
                   clsStarted, points, httpVars>>

FbTick ==
    /\ now < FbMaxNow
    /\ now' = now + 1
    /\ UNCHANGED <<cbVars, retryVars, routerVars, fnVars, clsVars, httpVars>>

NextFeedback ==
    \/ \E c \in Classifiers :
           \/ AddBegin(c)
           \/ AddEmbedResolves(c)
           \/ AddUpsertResolves(c)
           \/ AddRejects(c)
           \/ AddFinish(c)
    \/ FbTick

SpecFeedback == Init /\ [][NextFeedback]_vars

\* C30: the id an addExample call generates is strictly greater than the
\* id of every earlier call, so no two calls share an id and no stored
\* example is overwritten.
C30_FreshMonotonicIds ==
    /\ \A i, j \in DOMAIN adds.ids : i < j => adds.ids[i] < adds.ids[j]
    /\ \A id \in DOMAIN points : points[id].writes = 1

(***************************************************************************)
(* SpecCost: one run of the for loop of tryModels over a list of           *)
(* candidates, given what withRetry does for each: it throws, or returns   *)
(* the provider's data.  Prices are in thousandths of a dollar per million *)
(* tokens, so costs are exact quotients in thousandths of a dollar.        *)
(***************************************************************************)
MaxChain == 2

TokenCounts == {0, 500}

\* OpenRouterApiResponse: hasChoices says whether choices[0].message is
\* there; usage is optional, <<>> when absent and <<the object>> otherwise
Usages ==
    {<<>>} \cup
    {<<u>> : u \in [prompt_tokens : TokenCounts,
                    completion_tokens : TokenCounts]}

UsageData == [hasChoices : BOOLEAN, usage : Usages]

\* what withRetry does for one candidate: it throws, or returns data
RetryOutcomes ==
    {[threw |-> TRUE, data |-> [hasChoices |-> FALSE, usage |-> <<>>]]}
    \cup {[threw |-> FALSE, data |-> d] : d \in UsageData}

\* data.usage?.prompt_tokens ?? classification.estimatedInputTokens and
\* data.usage?.completion_tokens ?? 0
usageOf(data, classification) ==
    [inputTokens |-> IF data.usage # <<>>
                     THEN data.usage[1].prompt_tokens
                     ELSE classification.estimatedInputTokens,
     outputTokens |-> IF data.usage # <<>>
                      THEN data.usage[1].completion_tokens
                      ELSE 0]

\* (inputTokens / 1_000_000) * model.costPer1MInput +
\* (outputTokens / 1_000_000) * model.costPer1MOutput
estimatedCostUsd(model, usage) ==
    Frac(usage.inputTokens * model.costPer1MInput
         + usage.outputTokens * model.costPer1MOutput, 1000000)

LlmResponse_pricesOfFirst(candidates, i, data, classification) ==
    LET usage == usageOf(data, classification) IN
    [model |-> candidates[i].id,
     category |-> classification.category,
     estimatedCostUsd |-> estimatedCostUsd(candidates[1], usage),
     fallbackUsed |-> candidates[i].id # candidates[1].id,
     usage |-> usage]

\* the LlmResponse tryModels returns when candidates[i] answered with data
LlmResponse(candidates, i, data, classification) ==
    LET usage == usageOf(data, classification) IN
    [model |-> candidates[i].id,
     category |-> classification.category,
     estimatedCostUsd |-> estimatedCostUsd(candidates[i], usage),
     fallbackUsed |-> candidates[i].id # candidates[1].id,
     usage |-> usage]

\* the for loop of tryModels from candidates[i] on, outcomes[i] being
\* what withRetry does for candidates[i]: <<the response>>, or <<>> for
\* the throw of 'All models failed'
RECURSIVE tryModelsLoop(_, _, _, _)
tryModelsLoop(candidates, outcomes, classification, i) ==
    IF i > Len(candidates) THEN <<>>
    ELSE IF ~outcomes[i].threw /\ outcomes[i].data.hasChoices
    THEN << LlmResponse(candidates, i, outcomes[i].data, classification) >>
    ELSE tryModelsLoop(candidates, outcomes, classification, i + 1)

CostArgs ==
    {a \in [candidates : SeqsUpTo(Range(REGISTRY_MODELS), MaxChain),
            outcomes : SeqsUpTo(RetryOutcomes, MaxChain),
            classification : [category : {"code"},
                              estimatedInputTokens : {200}]] :
        /\ a.candidates # <<>>
        /\ Len(a.outcomes) = Len(a.candidates)}

InitCost ==
    /\ now = 0
    /\ CBIdle
    /\ RetryIdle
    /\ RouterIdle
    /\ ClsIdle
    /\ HttpIdle
    /\ fnArgs \in CostArgs
    /\ fnRet = <<>>

CallTryModels ==
    /\ fnRet = <<>>
    /\ fnRet' = << "returned",
                   tryModelsLoop(fnArgs.candidates, fnArgs.outcomes,
                                 fnArgs.classification, 1) >>
    /\ UNCHANGED <<now, cbVars, retryVars, routerVars, clsVars, httpVars,
                   fnArgs>>

NextCost == CallTryModels

SpecCost == InitCost /\ [][NextCost]_vars

\* the first candidate whose outcome is an answer with a message
Answered(a) ==
    {i \in DOMAIN a.candidates :
        /\ ~a.outcomes[i].threw /\ a.outcomes[i].data.hasChoices
        /\ \A j \in 1..(i - 1) :
               a.outcomes[j].threw \/ ~a.outcomes[j].data.hasChoices}

\* C31: every response carries the provider's prompt_tokens as inputTokens
\* when the answer reports usage and the classification's
\* estimatedInputTokens otherwise, completion_tokens or 0 as outputTokens,
\* and a cost of inputTokens/1e6 * costPer1MInput + outputTokens/1e6 *
\* costPer1MOutput at the prices of the model that answered.
C31_UsageAndCost ==
    (fnRet # <<>> /\ fnRet[2] # <<>>) =>
        \E i \in Answered(fnArgs) :
            LET m == fnArgs.candidates[i]
                u == fnArgs.outcomes[i].data.usage
                r == fnRet[2][1]
            IN /\ r.model = m.id
               /\ r.usage.inputTokens =
                      IF u = <<>>
                      THEN fnArgs.classification.estimatedInputTokens
                      ELSE u[1].prompt_tokens
               /\ r.usage.outputTokens =
                      IF u = <<>> THEN 0 ELSE u[1].completion_tokens
               /\ r.estimatedCostUsd.n * 1000000 =
                      r.estimatedCostUsd.d
                      * (r.usage.inputTokens * m.costPer1MInput
                         + r.usage.outputTokens * m.costPer1MOutput)

\* the second candidate answers, with usage, after the first one failed,
\* and the two have different prices
C31_Witness ==
    /\ fnRet # <<>>
    /\ fnRet[2] # <<>>
    /\ Len(fnArgs.candidates) = 2
    /\ fnRet[2][1].model = fnArgs.candidates[2].id
    /\ fnArgs.candidates[1].costPer1MInput
           # fnArgs.candidates[2].costPer1MInput
    /\ fnArgs.outcomes[1].threw
    /\ fnArgs.outcomes[2].data.usage # <<>>
    /\ fnRet[2][1].usage.inputTokens = 500

\* C32: a complete call whose forceModel is a known model M tries M alone:
\* provider calls go to M only, at most RETRY_ATTEMPTS of them, nothing is
\* taken from getCandidates or a strategy, a response names M with
\* fallbackUsed false, and the only error after assembly is 'All models
\* failed', with exactly one failure recorded on M's breaker.
C32_ForcedModelOnly ==
    LET q == reqs[1]
        M == q.forceModel
    IN (q.pc \in {"provider", "backoff", "done", "error"}
        /\ M \in ModelIds) =>
           /\ q.candidates = <<M>>
           /\ q.ranked = <<>>
           /\ \A m \in ModelIds \ {M} : q.calls[m] = 0
           /\ q.calls[M] <= RETRY_ATTEMPTS
           /\ q.pc \in {"provider", "backoff"} => q.failures[M] = 0
           /\ q.pc = "done" =>
                  /\ q.response.model = M
                  /\ q.response.fallbackUsed = FALSE
                  /\ q.failures[M] = 0
           /\ q.pc = "error" =>
                  /\ q.error = "All models failed"
                  /\ q.failures[M] = 1
                  /\ q.calls[M] >= 1

\* every attempt on the forced model was rejected
C32_Witness ==
    /\ reqs[1].forceModel = "safe/expensive-slow"
    /\ reqs[1].pc = "error"
    /\ reqs[1].calls["safe/expensive-slow"] = RETRY_ATTEMPTS
    /\ reqs[1].successes["safe/expensive-slow"] = 0
    /\ reqs[1].failures["safe/expensive-slow"] = 1

(***************************************************************************)
(* SpecEscalate: one call of buildClassification, for a classifier that    *)
(* resolves with any ClassificationResult: every field is there, the       *)
(* confidence in hundredths lies on both sides of CONFIDENCE_MIN, and the  *)
(* source is any value of the type.                                        *)
(***************************************************************************)
ClassificationResults ==
    [category : TaskCategory,
     confidence : {0, 30, 49, 50, 90},
     scores : {[c \in TaskCategory |-> 0],
               [c \in TaskCategory |-> IF c = "code" THEN 30 ELSE 0]},
     signals : {<<>>, <<"code(0.30)">>},
     estimatedInputTokens : {2, 3},
     source : {"cache", "semantic", "llm"}]

EscalateArgs ==
    [forceCategory : ForceCategoryInputs, result : ClassificationResults]

InitEscalate ==
    /\ now = 0
    /\ CBIdle
    /\ RetryIdle
    /\ RouterIdle
    /\ ClsIdle
    /\ HttpIdle
    /\ fnArgs \in EscalateArgs
    /\ fnRet = <<>>

CallBuildClassification ==
    /\ fnRet = <<>>
    /\ fnRet' = << buildClassification(fnArgs.forceCategory, fnArgs.result) >>
    /\ UNCHANGED <<now, cbVars, retryVars, routerVars, clsVars, httpVars,
                   fnArgs>>

NextEscalate == CallBuildClassification

SpecEscalate == InitEscalate /\ [][NextEscalate]_vars

Escalated ==
    /\ fnRet # <<>>
    /\ fnArgs.forceCategory = Undefined
    /\ fnArgs.result.confidence < CONFIDENCE_MIN

C34_EveryEntryExpires ==
    (\A c \in Classifiers : cls[c].pc \in {"idle", "done", "error"}) =>
        \A key \in DOMAIN cache :
            /\ cache[key].ttl # -1
            /\ cache[key].ttl <= CACHE_TTL_SECONDS

\* the counters of breaker b are within their thresholds
CountersInRange(b) ==
    /\ 0 <= b.failureCount
    /\ b.failureCount < BreakerConfig.failureThreshold
    /\ 0 <= b.successCount
    /\ b.successCount < BreakerConfig.successThreshold
    /\ b.successCount # 0 => b.state = "HALF_OPEN"

\* C35: after any sequence of canExecute, recordSuccess and recordFailure
\* calls, 0 <= failureCount < failureThreshold and 0 <= successCount <
\* successThreshold, successCount is non-zero in HALF_OPEN only, and both
\* counters are 0 in the state in which the breaker has entered CLOSED.
C35_CountersBounded ==
    /\ CountersInRange(cb)
    /\ [][/\ CountersInRange(cb')
          /\ (cb.state # "CLOSED" /\ cb'.state = "CLOSED")
                 => (cb'.failureCount = 0 /\ cb'.successCount = 0)]_vars

\* the breaker is back in CLOSED, after a HALF_OPEN period, with failures
\* counted again
C35_Witness ==
    /\ cb.state = "CLOSED"
    /\ hoSucc = CIRCUIT_SUCCESS_THRESHOLD
    /\ cb.failureCount = CIRCUIT_FAILURE_THRESHOLD - 1

(***************************************************************************)
(* SpecRace: concurrent complete() calls with default options, and calls   *)
(* with forceModel, enough of them for a breaker to open while another     *)
(* call is under way.                                                      *)
(***************************************************************************)
RacePlans ==
    {Plan(o, c) : o \in {NoOptions,
                         [NoOptions EXCEPT !.forceModel = "safe/cheap-fast"]},
                  c \in {x \in ClassifierResults : x.confidence = 90}}

NextRace ==
    \/ \E r \in Callers : BeginUpTo(r, SeqCompletes)
    \/ \E r \in Callers, plan \in RacePlans : Assemble(r, plan)
    \/ \E r \in Callers : ProviderResolvesWith(r, "ok")
    \/ \E r \in Callers : ProviderRejects(r)
    \/ \E r \in Callers : BackoffEnds(r)
    \/ \E r \in Callers : Finish(r)
    \/ Tick

SpecRace == Init /\ [][NextRace]_vars

\* breaker b is OPEN and less than halfOpenTimeoutMs have passed at time t
\* since its last recorded failure
OpenAndWaiting(b, t) ==
    /\ b.state = "OPEN"
    /\ t - b.lastFailureTime < BreakerConfig.halfOpenTimeoutMs

\* C36: no provider call is started for a model while that model's breaker
\* is OPEN and fewer than halfOpenTimeoutMs have passed since its last
\* recorded failure.
C36_NoCallWhileOpen ==
    [][\A r \in Callers : \A m \in ModelIds :
          reqs'[r].calls[m] > reqs[r].calls[m]
              => ~OpenAndWaiting(breakers'[m], now')]_vars

(***************************************************************************)
(* SpecProbe: complete() calls with default options, one after the other,  *)
(* each provider call answering or failing, over a period longer than the  *)
(* half-open timeout.                                                      *)
(***************************************************************************)
ProbePlans == {p \in RacePlans : p.forceModel = Undefined}

NextProbe ==
    \/ SeqBegin
    \/ \E plan \in ProbePlans : Assemble(1, plan)
    \/ ProviderResolvesWith(1, "ok")
    \/ ProviderRejects(1)
    \/ BackoffEnds(1)
    \/ Finish(1)
    \/ Tick

SpecProbe == Init /\ [][NextProbe]_vars

\* no outcome has been recorded on breaker b since it entered HALF_OPEN
Unprobed(b) == b.state = "HALF_OPEN" /\ b.successCount = 0

C38_FallbackIffExhausted ==
    \A r \in Callers :
        LET q == reqs[r] IN
        q.pc = "done" =>
            (q.response.fallbackUsed <=>
                \E m \in ModelIds \ {q.response.model} :
                    /\ q.calls[m] = RETRY_ATTEMPTS
                    /\ q.failures[m] >= 1)

(***************************************************************************)
(* SpecStale: classify() calls and addExample() calls of one client on the *)
(* same prompts, one call of each kind at a time, over one cache, all      *)
(* within one millisecond of Date.now().                                   *)
(***************************************************************************)
NextStale ==
    \/ ClsBegin(1, SharedPrompts, MaxClassify)
    \/ ClsGetResolves(1)
    \/ ClsEmbedResolves(1)
    \/ ClsSearchResolves(1, SharedHitLists)
    \/ ClsExpandedResolves(1, SharedHitLists)
    \/ ClsSetResolves(1)
    \/ ClsExpireResolves(1)
    \/ ClsRejects(1)
    \/ ClsFinish(1)
    \/ CacheExpires
    \/ AddBegin(1)
    \/ AddEmbedResolves(1)
    \/ AddUpsertResolves(1)
    \/ AddRejects(1)
    \/ AddFinish(1)

SpecStale == Init /\ [][NextStale]_vars

\* the collection holds an example whose text has the cache key `key`
FeedbackGiven(key) ==
    \E id \in DOMAIN points : cacheKey(points[id].text) = key

\* C39: no step of an addExample call changes the cache, and a classify
\* call whose prompt has a cache entry returns the cached category with
\* source 'cache' also after an example was added for that prompt.
C39_FeedbackLeavesCache ==
    [][/\ (adds' # adds \/ points' # points) => cache' = cache
       /\ \A c \in Classifiers :
              (/\ cls[c].pc = "get"
               /\ cls'[c].pc \notin {"get", "error"}
               /\ KeyOf(c) \in DOMAIN cache
               /\ FeedbackGiven(KeyOf(c)))
              => /\ cls'[c].pc = "done"
                 /\ cls'[c].ret[1].source = "cache"
                 /\ cls'[c].ret[1].category
                        = cache[KeyOf(c)].value[2].category
                 /\ cls'[c].embeds = 0 /\ cls'[c].searches = <<>>]_vars

\* a classify call answered 'code' from the cache although an example of
\* category 'simple' is stored for the same prompt
C39_Witness ==
    /\ cls[1].pc = "done"
    /\ cls[1].ret[1].source = "cache"
    /\ cls[1].ret[1].category = "code"
    /\ cls[1].embeds = 0
    /\ \E id \in DOMAIN points :
           /\ cacheKey(points[id].text) = KeyOf(1)
           /\ points[id].category = "simple"

(***************************************************************************)
(* SpecLive: the complete() calls of two callers, interleaved at their     *)
(* awaits as in Spec, where every awaited operation settles:               *)
(* classification resolves or rejects, every provider call resolves or     *)
(* rejects, and every backoff sleep ends.                                  *)
(***************************************************************************)
LiveCallers == {1, 2}

ClassificationSettles(r) ==
    ClassifyFails(r) \/ \E plan \in Plans : Assemble(r, plan)

ProviderSettles(r) == ProviderResolves(r) \/ ProviderRejects(r)

NextLive ==
    \/ \E r \in LiveCallers : Begin(r)
    \/ \E r \in LiveCallers : ClassificationSettles(r)
    \/ \E r \in LiveCallers : ProviderSettles(r)
    \/ \E r \in LiveCallers : BackoffEnds(r)
    \/ \E r \in LiveCallers : Finish(r)
    \/ Tick

SpecLive ==
    /\ Init
    /\ [][NextLive]_vars
    /\ \A r \in LiveCallers :
           /\ WF_vars(ClassificationSettles(r))
           /\ WF_vars(ProviderSettles(r))
           /\ WF_vars(BackoffEnds(r))

InProgress(q) == q.pc \in {"classify", "provider", "backoff"}

\* C40: when classification and every provider call settle, every complete
\* call ends with a response or an error; it makes at most RETRY_ATTEMPTS
\* provider calls per candidate and goes through its candidates once, in
\* order, whatever the other calls do.
C40_CompleteTerminates ==
    /\ \A r \in LiveCallers :
           InProgress(reqs[r]) ~> (reqs[r].pc \in {"done", "error"})
    /\ [](\A r \in LiveCallers : \A m \in ModelIds :
              reqs[r].calls[m] <= RETRY_ATTEMPTS)
    /\ [][\A r \in LiveCallers :
              (InProgress(reqs[r]) /\ reqs[r].idx > 0)
                  => /\ reqs'[r].candidates = reqs[r].candidates
                     /\ reqs'[r].idx >= reqs[r].idx
                     /\ reqs'[r].idx <= Len(reqs[r].candidates)]_vars

\* a call has ended after going through all of its candidates, each called
\* RETRY_ATTEMPTS times, while another call was under way
C40_Witness ==
    /\ reqs[1].pc = "error"
    /\ reqs[1].error = "All models failed"
    /\ Len(reqs[1].candidates) >= 2
    /\ \A i \in DOMAIN reqs[1].candidates :
           reqs[1].calls[reqs[1].candidates[i]] = RETRY_ATTEMPTS
    /\ InProgress(reqs[2])

====
